---- MODULE Spec2Model ----
(***************************************************************************)
(* Impact-Simulator backend: the enhanced physics engine                   *)
(* (backend/services/physics_engine.py) and the state it runs in.          *)
(*                                                                         *)
(* Python floats are modelled as decimal floating point numbers with a     *)
(* four digit mantissa, m * 10^e, so that every product fits the checker's *)
(* integers.  A value is a record [t, m, e]: t = "real" for a float,       *)
(* "none" for Python's None and "complex" for the complex number that      *)
(* float.__pow__ returns for a negative base and a fractional exponent.    *)
(***************************************************************************)
EXTENDS Integers, Sequences, FiniteSets, TLC

VARIABLES
    pc,                     \* position of the request: "ready" | "done"
    asteroid,               \* the Asteroid record handed to the engine
    parameters,             \* the ImpactParameters handed to the engine
    kwargs,                 \* keyword arguments of a direct effects call
    locals,                 \* local variables of calculate_impact_scenario
    outcome,                \* what the call returned or raised
    calculation_metadata,   \* EnhancedPhysicsEngine.calculation_metadata
    MATERIAL_DENSITIES,     \* EnhancedPhysicsEngine.MATERIAL_DENSITIES
    history,                \* <<inputs, outcome>> of the calls made so far
    request,                \* the SimulationCreate body posted to /run
    response,               \* the HTTP status the endpoint answered with
    db,                     \* the store: db.asteroids and db.simulations
    nasa,                   \* what the NASA source answers for the identifier
    calls                   \* the calls of the engine in progress, by request

\* The state of the callers of the engine.
service == <<request, response, db, nasa, calls>>

vars == <<pc, asteroid, parameters, kwargs, locals, outcome,
          calculation_metadata, MATERIAL_DENSITIES, history, service>>

---------------------------------------------------------------------------
(* Decimal floating point arithmetic                                       *)

Abs(n) == IF n < 0 THEN -n ELSE n
Sgn(n) == IF n < 0 THEN -1 ELSE 1

None == [t |-> "none", m |-> 0, e |-> 0]
Complex == [t |-> "complex", m |-> 0, e |-> 0]
Zero == [t |-> "real", m |-> 0, e |-> 0]

IsNone(x) == x.t = "none"
IsComplex(x) == x.t = "complex"
IsReal(x) == x.t = "real"

\* A four digit mantissa from the rounded digits n of a wider number.
Carry(n, e) ==
    IF n = 10000 \/ n = -10000 THEN [t |-> "real", m |-> n \div 10, e |-> e + 1]
    ELSE [t |-> "real", m |-> n, e |-> e]

\* m * 10^e with the mantissa brought to four digits, rounding to nearest.
Norm(m, e) ==
    LET a == IF m < 0 THEN -m ELSE m
        s == IF m < 0 THEN -1 ELSE 1
    IN IF a = 0 THEN Zero
       ELSE IF a < 10 THEN [t |-> "real", m |-> m * 1000, e |-> e - 3]
       ELSE IF a < 100 THEN [t |-> "real", m |-> m * 100, e |-> e - 2]
       ELSE IF a < 1000 THEN [t |-> "real", m |-> m * 10, e |-> e - 1]
       ELSE IF a < 10000 THEN [t |-> "real", m |-> m, e |-> e]
       ELSE IF a < 100000 THEN Carry(s * ((a + 5) \div 10), e + 1)
       ELSE IF a < 1000000 THEN Carry(s * ((a + 50) \div 100), e + 2)
       ELSE IF a < 10000000 THEN Carry(s * ((a + 500) \div 1000), e + 3)
       ELSE IF a < 100000000 THEN Carry(s * ((a + 5000) \div 10000), e + 4)
       ELSE IF a < 1000000000 THEN Carry(s * ((a + 50000) \div 100000), e + 5)
       ELSE Carry(s * ((a + 500000) \div 1000000), e + 6)

\* The float literal m * 10^e.
F(m, e) == Norm(m, e)

RECURSIVE Pow10(_)
Pow10(k) == IF k <= 0 THEN 1 ELSE 10 * Pow10(k - 1)

FNeg(a) == IF IsComplex(a) THEN Complex ELSE [a EXCEPT !.m = -a.m]

FAdd(a, b) ==
    IF IsComplex(a) \/ IsComplex(b) THEN Complex
    ELSE IF a.m = 0 THEN b
    ELSE IF b.m = 0 THEN a
    ELSE IF a.e - b.e >= 5 THEN a
    ELSE IF b.e - a.e >= 5 THEN b
    ELSE IF a.e >= b.e THEN Norm(a.m * Pow10(a.e - b.e) + b.m, b.e)
    ELSE Norm(b.m * Pow10(b.e - a.e) + a.m, a.e)

FSub(a, b) == FAdd(a, FNeg(b))

FMul(a, b) ==
    IF IsComplex(a) \/ IsComplex(b) THEN Complex
    ELSE Norm(a.m * b.m, a.e + b.e)

\* a / b for b # 0 (the callers raise ZeroDivisionError before dividing by 0).
FDiv(a, b) ==
    IF IsComplex(a) \/ IsComplex(b) THEN Complex
    ELSE Norm(Sgn(a.m) * Sgn(b.m) * ((Abs(a.m) * 100000) \div Abs(b.m)),
              a.e - b.e - 5)

\* Comparisons of two real values (normalised mantissas).
FLt(a, b) ==
    IF a.m = 0 THEN b.m > 0
    ELSE IF b.m = 0 THEN a.m < 0
    ELSE IF (a.m < 0) # (b.m < 0) THEN a.m < 0
    ELSE IF a.e = b.e THEN a.m < b.m
    ELSE IF a.m > 0 THEN a.e < b.e
    ELSE a.e > b.e
FGt(a, b) == FLt(b, a)
FLe(a, b) == ~FLt(b, a)
FGe(a, b) == ~FLt(a, b)
FMin(a, b) == IF FLt(b, a) THEN b ELSE a
FMax(a, b) == IF FGt(b, a) THEN b ELSE a

\* y ** n for a natural number n, by repeated squaring.
RECURSIVE IPow(_, _)
IPow(y, n) ==
    IF n = 0 THEN F(1, 0)
    ELSE IF n % 2 = 0 THEN LET Square(h) == FMul(h, h) IN Square(IPow(y, n \div 2))
    ELSE FMul(y, IPow(y, n - 1))

\* The largest mantissa in lo..hi-1 whose q-th power at exponent k does not
\* exceed target (lo is taken to satisfy it).
RECURSIVE RootSearch(_, _, _, _, _)
RootSearch(lo, hi, k, q, target) ==
    IF hi - lo <= 1 THEN lo
    ELSE LET mid == (lo + hi) \div 2 IN
         IF FLe(IPow([t |-> "real", m |-> mid, e |-> k], q), target)
         THEN RootSearch(mid, hi, k, q, target)
         ELSE RootSearch(lo, mid, k, q, target)

\* x ** (p/q) as Python's float.__pow__ gives it: a complex number for a
\* negative base, 0.0 for a zero base, else the positive real power.
FPow(x, p, q) ==
    IF IsComplex(x) THEN Complex
    ELSE IF x.m < 0 THEN Complex
    ELSE IF x.m = 0 THEN Zero
    ELSE LET Root(target, k) ==
                 [t |-> "real", m |-> RootSearch(1000, 10000, k - 3, q, target), e |-> k - 3]
             RootOf(target) == Root(target, (target.e + 3) \div q)
         IN RootOf(IPow(x, p))

\* math.sqrt(x) for x >= 0 (the callers raise ValueError for x < 0).
FSqrt(x) == FPow(x, 1, 2)

\* The number of the first LogBits binary digits of log10(y), 1 <= y < 10.
RECURSIVE LogFraction(_, _, _)
LogFraction(y, bit, acc) ==
    IF bit = 0 THEN acc
    ELSE LET Digit(sq) ==
                 IF sq.e >= -2
                 THEN LogFraction([sq EXCEPT !.e = sq.e - 1], bit - 1, 2 * acc + 1)
                 ELSE LogFraction(sq, bit - 1, 2 * acc)
         IN Digit(FMul(y, y))

\* math.log10(x) for x > 0 (the callers guard x > 0).
FLog10(x) ==
    FAdd(Norm(x.e + 3, 0),
         FDiv(Norm(LogFraction([x EXCEPT !.e = -3], 12, 0), 0), F(4096, 0)))

\* f"{x:.<d>f}": the value rounded to d decimals (half away from zero).
FFormat(x, d) ==
    IF IsComplex(x) THEN Complex
    ELSE LET drop == (0 - d) - x.e IN
         IF drop <= 0 THEN x
         ELSE IF drop >= 5 THEN Zero
         ELSE Norm(Sgn(x.m) * ((Abs(x.m) + 5 * Pow10(drop - 1)) \div Pow10(drop)), 0 - d)

\* Python's truth value of an Optional[float]: None and 0.0 are false.
Truthy(x) == ~IsNone(x) /\ x.m # 0

---------------------------------------------------------------------------
(* Exceptions: a raised exception travels as a value whose tag names it.   *)

ValueError == [t |-> "ValueError", m |-> 0, e |-> 0]
KeyError == [t |-> "KeyError", m |-> 0, e |-> 0]
ZeroDivisionError == [t |-> "ZeroDivisionError", m |-> 0, e |-> 0]
TypeError == [t |-> "TypeError", m |-> 0, e |-> 0]
Unset == [t |-> "unset", m |-> 0, e |-> 0]

Raised(x) == x.t \in {"ValueError", "KeyError", "ZeroDivisionError", "TypeError"}

---------------------------------------------------------------------------
(* EnhancedPhysicsEngine: constants                                        *)

EARTH_ESCAPE_VELOCITY == F(112, -1)
AU == F(1496, 8)
GM_sun == F(1327, 17)
PI == F(3142, -3)

MaterialDensityTable ==
    [c \in {"rocky", "iron", "icy", "stony"} |->
        CASE c = "rocky" -> F(2600, 0)
          [] c = "iron" -> F(7800, 0)
          [] c = "icy" -> F(1000, 0)
          [] c = "stony" -> F(3500, 0)]

\* math.sin(x) for -pi <= x <= pi, by the Taylor series after reduction to
\* [0, pi/4] (sin x = cos(pi/2 - x) above pi/4).
SinSeries(x) ==
    LET Sum(t3, t5, t7) == FSub(FAdd(FSub(x, t3), t5), t7)
        Term7(x2, t3, t5) == Sum(t3, t5, FDiv(FMul(t5, x2), F(42, 0)))
        Term5(x2, t3) == Term7(x2, t3, FDiv(FMul(t3, x2), F(20, 0)))
        Term3(x2) == Term5(x2, FDiv(FMul(x, x2), F(6, 0)))
    IN Term3(FMul(x, x))

CosSeries(x) ==
    LET Sum(t2, t4, t6) == FAdd(FSub(FSub(F(1, 0), t2), FNeg(t4)), FNeg(t6))
        Term6(x2, t2, t4) == Sum(t2, t4, FDiv(FMul(t4, x2), F(30, 0)))
        Term4(x2, t2) == Term6(x2, t2, FDiv(FMul(t2, x2), F(12, 0)))
        Term2(x2) == Term4(x2, FDiv(x2, F(2, 0)))
    IN Term2(FMul(x, x))

RECURSIVE FSin(_)
FSin(x) ==
    LET half == FDiv(PI, F(2, 0))
        quarter == FDiv(PI, F(4, 0))
    IN IF x.m < 0 THEN FNeg(FSin(FNeg(x)))
       ELSE IF FGt(x, half) THEN FSin(FSub(PI, x))
       ELSE IF FGt(x, quarter) THEN CosSeries(FSub(half, x))
       ELSE SinSeries(x)

\* math.radians(deg)
FRadians(deg) == FMul(deg, FDiv(PI, F(180, 0)))

---------------------------------------------------------------------------
(* Velocity resolver and mass/energy resolver                              *)

\* _calculate_orbital_velocity: math.sqrt raises ValueError below zero.
CalculateOrbitalVelocity(orbital_elements) ==
    IF ~Truthy(orbital_elements.semi_major_axis_au) THEN F(15, 0)
    ELSE LET Velocity(ratio) ==
                 IF ratio.m < 0 THEN ValueError
                 ELSE FDiv(FSqrt(ratio), F(1000, 0))
             Orbit(a_meters) == Velocity(FDiv(GM_sun, a_meters))
         IN Orbit(FMul(orbital_elements.semi_major_axis_au, AU))

\* A variant of _calculate_impact_velocity that falls back to the velocity the
\* engine instance remembers from its last call instead of the constant.
CalculateImpactVelocityRemembered(ast, params) ==
    IF Truthy(params.impact_velocity_kms) THEN params.impact_velocity_kms
    ELSE IF ast.orbital_elements.present
            /\ Truthy(ast.orbital_elements.semi_major_axis_au)
    THEN LET Impact(orbital_velocity) ==
                 IF Raised(orbital_velocity) THEN orbital_velocity
                 ELSE FSqrt(FAdd(IPow(orbital_velocity, 2), IPow(EARTH_ESCAPE_VELOCITY, 2)))
         IN Impact(CalculateOrbitalVelocity(ast.orbital_elements))
    ELSE IF IsReal(calculation_metadata.impact_velocity_used)
    THEN calculation_metadata.impact_velocity_used
    ELSE F(20, 0)

\* A variant of _calculate_impact_velocity that, with no orbital data, still
\* combines the default orbital velocity 15.0 with the escape velocity.
CalculateImpactVelocityOrbitalDefault(ast, params) ==
    IF Truthy(params.impact_velocity_kms) THEN params.impact_velocity_kms
    ELSE LET Impact(orbital_velocity) ==
                 IF Raised(orbital_velocity) THEN orbital_velocity
                 ELSE FSqrt(FAdd(IPow(orbital_velocity, 2), IPow(EARTH_ESCAPE_VELOCITY, 2)))
         IN IF ast.orbital_elements.present
            THEN Impact(CalculateOrbitalVelocity(ast.orbital_elements))
            ELSE Impact(F(15, 0))

\* _calculate_impact_velocity: `if x:` is Python's truth test, so a negative
\* override or axis counts as given.
CalculateImpactVelocity(ast, params) ==
    IF Truthy(params.impact_velocity_kms) THEN params.impact_velocity_kms
    ELSE IF ast.orbital_elements.present
            /\ Truthy(ast.orbital_elements.semi_major_axis_au)
    THEN LET Impact(orbital_velocity) ==
                 IF Raised(orbital_velocity) THEN orbital_velocity
                 ELSE FSqrt(FAdd(IPow(orbital_velocity, 2), IPow(EARTH_ESCAPE_VELOCITY, 2)))
         IN Impact(CalculateOrbitalVelocity(ast.orbital_elements))
    ELSE F(20, 0)

\* asteroid.estimated_diameter_km or 1.0
DiameterKm(ast) ==
    IF Truthy(ast.estimated_diameter_km) THEN ast.estimated_diameter_km ELSE F(1, 0)

\* density in _calculate_asteroid_mass: dict.get with the rocky default.
MassDensity(ast, densities) ==
    IF Truthy(ast.density_kg_m3) THEN ast.density_kg_m3
    ELSE IF ast.composition_type \in DOMAIN densities
    THEN densities[ast.composition_type]
    ELSE F(2600, 0)

\* A variant of _calculate_asteroid_mass that divides the volume by the
\* density.
CalculateAsteroidMassDivided(ast, densities) ==
    LET Mass(volume_m3) == FDiv(volume_m3, MassDensity(ast, densities))
        Volume(radius_m) == Mass(FMul(FMul(FDiv(F(4, 0), F(3, 0)), PI), IPow(radius_m, 3)))
        Radius(diameter_m) == Volume(FDiv(diameter_m, F(2, 0)))
    IN Radius(FMul(DiameterKm(ast), F(1000, 0)))

\* _calculate_asteroid_mass
CalculateAsteroidMass(ast, densities) ==
    LET Mass(volume_m3) == FMul(volume_m3, MassDensity(ast, densities))
        Volume(radius_m) == Mass(FMul(FMul(FDiv(F(4, 0), F(3, 0)), PI), IPow(radius_m, 3)))
        Radius(diameter_m) == Volume(FDiv(diameter_m, F(2, 0)))
    IN Radius(FMul(DiameterKm(ast), F(1000, 0)))

\* density in calculate_impact_scenario: dict subscript, KeyError when the
\* composition is not a key.
ScenarioDensity(ast, densities) ==
    IF Truthy(ast.density_kg_m3) THEN ast.density_kg_m3
    ELSE IF ast.composition_type \in DOMAIN densities
    THEN densities[ast.composition_type]
    ELSE KeyError

\* diameter_m in calculate_impact_scenario
ScenarioDiameterM(ast) == FMul(DiameterKm(ast), F(1000, 0))

\* A variant of the energy that squares the velocity in km/s, without the
\* conversion to m/s.
EnergyMegatonsKmPerSecond(mass_kg, impact_velocity) ==
    LET kinetic_energy_joules ==
            FMul(FMul(F(5, -1), mass_kg), IPow(impact_velocity, 2))
    IN FDiv(kinetic_energy_joules, F(4184, 12))

\* energy_megatons in calculate_impact_scenario
EnergyMegatons(mass_kg, impact_velocity) ==
    LET kinetic_energy_joules ==
            FMul(FMul(F(5, -1), mass_kg), IPow(FMul(impact_velocity, F(1000, 0)), 2))
    IN FDiv(kinetic_energy_joules, F(4184, 12))

---------------------------------------------------------------------------
(* Effects calculator: the scaling laws                                    *)

\* _calculate_crater_diameter: the float division raises ZeroDivisionError
\* for target_density = 0; a negative base of ** 0.25 gives a complex number.
CalculateCraterDiameter(energy_mt, diameter_m, velocity_kms, density, target_density, angle_deg) ==
    LET energy_joules == FMul(energy_mt, F(4184, 12))
        angle_factor == FSin(FRadians(angle_deg))
    IN IF target_density.m = 0 THEN ZeroDivisionError
       ELSE FMul(F(125, -2),
                 FPow(FDiv(FMul(energy_joules, angle_factor), target_density), 1, 4))

\* _calculate_thermal_effects: fireball radius and peak temperature
FireballRadius(energy_mt) == FMul(F(5, -1), FPow(energy_mt, 2, 5))
PeakTemperature(velocity_kms) ==
    FMin(F(100000, 0), FAdd(FMul(velocity_kms, F(2000, 0)), F(10000, 0)))

\* _calculate_shockwave_radius
CalculateShockwaveRadius(energy_mt, angle_deg) ==
    FMul(FMul(F(15, 0), FPow(energy_mt, 33, 100)), FSin(FRadians(angle_deg)))

\* A variant of _calculate_seismic_magnitude without the energy_mt > 0 guard:
\* math.log10 raises ValueError at and below zero.
CalculateSeismicMagnitudeUnguarded(energy_mt) ==
    IF energy_mt.m <= 0 THEN ValueError
    ELSE LET magnitude ==
                 FDiv(FSub(FLog10(FMul(energy_mt, F(4184, 12))), F(48, -1)), F(15, -1))
         IN FMax(Zero, FMin(F(10, 0), magnitude))

\* A variant of _calculate_seismic_magnitude without the upper clamp.
CalculateSeismicMagnitudeUnclamped(energy_mt) ==
    IF energy_mt.m > 0
    THEN LET magnitude ==
                 FDiv(FSub(FLog10(FMul(energy_mt, F(4184, 12))), F(48, -1)), F(15, -1))
         IN FMax(Zero, magnitude)
    ELSE Zero

\* _calculate_seismic_magnitude
CalculateSeismicMagnitude(energy_mt) ==
    IF energy_mt.m > 0
    THEN LET magnitude ==
                 FDiv(FSub(FLog10(FMul(energy_mt, F(4184, 12))), F(48, -1)), F(15, -1))
         IN FMax(Zero, FMin(F(10, 0), magnitude))
    ELSE Zero

\* _calculate_debris_field
CalculateDebrisField(energy_mt, angle_deg) ==
    FMul(FMul(F(50, 0), FPow(energy_mt, 3, 10)), FSin(FRadians(angle_deg)))

\* A variant of _calculate_atmospheric_dust that scales the dust with the
\* impact energy.
CalculateAtmosphericDustByEnergy(energy_mt, diameter_m) ==
    LET crater_volume == FMul(FDiv(PI, F(6, 0)), IPow(diameter_m, 3))
    IN FMul(FMul(FMul(crater_volume, F(2600, 0)), F(1, -1)), energy_mt)

\* _calculate_atmospheric_dust
CalculateAtmosphericDust(energy_mt, diameter_m) ==
    LET crater_volume == FMul(FDiv(PI, F(6, 0)), IPow(diameter_m, 3))
    IN FMul(FMul(crater_volume, F(2600, 0)), F(1, -1))

\* _estimate_casualties
EstimateCasualties(shockwave_km, fireball_km) ==
    LET lethal_area_km2 ==
            FAdd(FMul(PI, IPow(fireball_km, 2)),
                 FMul(FMul(F(5, -1), PI), IPow(shockwave_km, 2)))
    IN FMul(FMul(lethal_area_km2, F(1000, 0)), F(8, -1))

\* _estimate_refugees
EstimateRefugees(debris_km) == FMul(FMul(PI, IPow(debris_km, 2)), F(500, 0))

---------------------------------------------------------------------------
(* Severity classifiers and progress                                       *)

\* A variant of the classifiers with the labels of the two middle bands
\* exchanged.
ClassifySwappedLabels(v, catastrophic, severe, moderate) ==
    IF FGt(v, catastrophic) THEN "catastrophic"
    ELSE IF FGt(v, severe) THEN "moderate"
    ELSE IF FGt(v, moderate) THEN "severe"
    ELSE "minor"

\* The shape shared by the twelve _get_*_severity methods.
Classify(v, catastrophic, severe, moderate) ==
    IF FGt(v, catastrophic) THEN "catastrophic"
    ELSE IF FGt(v, severe) THEN "severe"
    ELSE IF FGt(v, moderate) THEN "moderate"
    ELSE "minor"

\* A variant of _get_crater_severity whose comparisons are >=.
GetCraterSeverityInclusive(diameter_km) ==
    IF FGe(diameter_km, F(20, 0)) THEN "catastrophic"
    ELSE IF FGe(diameter_km, F(10, 0)) THEN "severe"
    ELSE IF FGe(diameter_km, F(2, 0)) THEN "moderate"
    ELSE "minor"

GetCraterSeverity(diameter_km) == Classify(diameter_km, F(20, 0), F(10, 0), F(2, 0))
GetEnergySeverity(energy_mt) == Classify(energy_mt, F(100000, 0), F(10000, 0), F(1000, 0))
GetTemperatureSeverity(temp) == Classify(temp, F(50000, 0), F(20000, 0), F(5000, 0))
GetFireballSeverity(radius_km) == Classify(radius_km, F(100, 0), F(50, 0), F(10, 0))
GetShockwaveSeverity(radius_km) == Classify(radius_km, F(2000, 0), F(1000, 0), F(200, 0))
GetDebrisSeverity(radius_km) == Classify(radius_km, F(5000, 0), F(2500, 0), F(1000, 0))
GetSeismicSeverity(magnitude) == Classify(magnitude, F(8, 0), F(7, 0), F(5, 0))
GetDustSeverity(billion_tons) == Classify(billion_tons, F(50, 0), F(10, 0), F(1, 0))
GetCasualtySeverity(casualties) == Classify(casualties, F(5000000, 0), F(1000000, 0), F(100000, 0))
GetInfrastructureSeverity(radius_km) == Classify(radius_km, F(1000, 0), F(500, 0), F(100, 0))
GetEconomicSeverity(loss_billion) == Classify(loss_billion, F(5000, 0), F(1000, 0), F(100, 0))
GetRefugeeSeverity(refugees) == Classify(refugees, F(20000000, 0), F(5000000, 0), F(1000000, 0))

\* The twelve classifiers by the name of their metric.
SeverityClassifiers ==
    {"crater", "energy", "temperature", "fireball", "shockwave", "debris",
     "seismic", "dust", "casualty", "infrastructure", "economic", "refugee"}
GetSeverity(classifier, v) ==
    CASE classifier = "crater" -> GetCraterSeverity(v)
      [] classifier = "energy" -> GetEnergySeverity(v)
      [] classifier = "temperature" -> GetTemperatureSeverity(v)
      [] classifier = "fireball" -> GetFireballSeverity(v)
      [] classifier = "shockwave" -> GetShockwaveSeverity(v)
      [] classifier = "debris" -> GetDebrisSeverity(v)
      [] classifier = "seismic" -> GetSeismicSeverity(v)
      [] classifier = "dust" -> GetDustSeverity(v)
      [] classifier = "casualty" -> GetCasualtySeverity(v)
      [] classifier = "infrastructure" -> GetInfrastructureSeverity(v)
      [] classifier = "economic" -> GetEconomicSeverity(v)
      [] classifier = "refugee" -> GetRefugeeSeverity(v)

\* progress=min(100, (value / ceiling) * 100)
Progress(value, ceiling) == FMin(F(100, 0), FMul(FDiv(value, ceiling), F(100, 0)))

\* ImpactMetric(value=..., unit=..., severity=..., description=..., progress=...)
ImpactMetric(value, unit, severity, description, progress, scientific_basis) ==
    [value |-> value, unit |-> unit, severity |-> severity,
     description |-> description, progress |-> progress,
     scientific_basis |-> scientific_basis]

---------------------------------------------------------------------------
(* _calculate_comprehensive_effects                                        *)

\* The local variables computed before the result dictionary is built
\* (lines 135-164); after a ZeroDivisionError in the crater only that is set.
EffectLocals(kw) ==
    LET energy_mt == kw.energy_megatons
        Locals(crater_diameter_m, fireball_radius_km, shockwave_radius_km,
               debris_radius_km) ==
            IF Raised(crater_diameter_m)
            THEN [crater_diameter_m |-> crater_diameter_m, fireball_radius_km |-> Unset,
                  peak_temperature |-> Unset, shockwave_radius_km |-> Unset,
                  seismic_magnitude |-> Unset, debris_radius_km |-> Unset,
                  atmospheric_dust_tons |-> Unset, casualties |-> Unset,
                  infrastructure_damage_km |-> Unset, economic_loss_billion |-> Unset,
                  refugees |-> Unset]
            ELSE [crater_diameter_m |-> crater_diameter_m,
                  fireball_radius_km |-> fireball_radius_km,
                  peak_temperature |-> PeakTemperature(kw.velocity_kms),
                  shockwave_radius_km |-> shockwave_radius_km,
                  seismic_magnitude |-> CalculateSeismicMagnitude(energy_mt),
                  debris_radius_km |-> debris_radius_km,
                  atmospheric_dust_tons |->
                      CalculateAtmosphericDust(energy_mt, kw.diameter_m),
                  casualties |->
                      EstimateCasualties(shockwave_radius_km, fireball_radius_km),
                  infrastructure_damage_km |-> FMul(shockwave_radius_km, F(15, -1)),
                  economic_loss_billion |-> FMul(energy_mt, F(1, -1)),
                  refugees |-> EstimateRefugees(debris_radius_km)]
    IN Locals(CalculateCraterDiameter(energy_mt, kw.diameter_m, kw.velocity_kms,
                                      kw.density, kw.target_density, kw.impact_angle),
              FireballRadius(energy_mt),
              CalculateShockwaveRadius(energy_mt, kw.impact_angle),
              CalculateDebrisField(energy_mt, kw.impact_angle))

\* What building the result dictionary raises: the severity comparisons and
\* min() raise TypeError on a complex value.
EffectsException(L) ==
    IF Raised(L.crater_diameter_m) THEN L.crater_diameter_m
    ELSE IF \E x \in {L.crater_diameter_m, L.fireball_radius_km, L.shockwave_radius_km,
                      L.debris_radius_km, L.casualties, L.infrastructure_damage_km,
                      L.refugees} : IsComplex(x)
    THEN TypeError
    ELSE Unset

\* The "immediate" group (lines 167-200).
ImmediateMetrics(kw, L) ==
    LET Group(crater_km) ==
    [craterDiameter |->
        ImpactMetric(FFormat(crater_km, 1), "km", GetCraterSeverity(crater_km),
            <<kw.diameter_m, FFormat(FMul(L.crater_diameter_m, F(5, -2)), 0)>>,
            Progress(crater_km, F(50, 0)),
            "Melosh-Ivanov scaling laws for complex craters"),
     energy |->
        ImpactMetric(FFormat(kw.energy_megatons, 0), "megatons TNT",
            GetEnergySeverity(kw.energy_megatons),
            <<FFormat(kw.velocity_kms, 1)>>,
            Progress(kw.energy_megatons, F(1000000, 0)),
            "Real orbital velocity + Earth escape velocity"),
     temperature |->
        ImpactMetric(FFormat(L.peak_temperature, 0), "C",
            GetTemperatureSeverity(L.peak_temperature),
            <<FFormat(kw.velocity_kms, 1)>>,
            Progress(L.peak_temperature, F(100000, 0)),
            "Shock physics and equation of state calculations"),
     fireballRadius |->
        ImpactMetric(FFormat(L.fireball_radius_km, 1), "km",
            GetFireballSeverity(L.fireball_radius_km),
            <<>>,
            Progress(L.fireball_radius_km, F(200, 0)),
            "Sedov-Taylor blast wave solution")]
    IN Group(FDiv(L.crater_diameter_m, F(1000, 0)))

\* The "environmental" group (lines 201-234).
EnvironmentalMetrics(kw, L) ==
    LET Group(dust_bt) ==
    [shockwaveRadius |->
        ImpactMetric(FFormat(L.shockwave_radius_km, 1), "km",
            GetShockwaveSeverity(L.shockwave_radius_km),
            <<FFormat(kw.energy_megatons, 0)>>,
            Progress(L.shockwave_radius_km, F(3000, 0)),
            "Atmospheric blast wave propagation models"),
     debrisFieldRadius |->
        ImpactMetric(FFormat(L.debris_radius_km, 1), "km",
            GetDebrisSeverity(L.debris_radius_km),
            <<FFormat(FDiv(L.crater_diameter_m, F(1000, 0)), 1)>>,
            Progress(L.debris_radius_km, F(8000, 0)),
            "Ballistic trajectory modeling of ejecta"),
     seismicMagnitude |->
        ImpactMetric(FFormat(L.seismic_magnitude, 1), "magnitude",
            GetSeismicSeverity(L.seismic_magnitude),
            <<FFormat(kw.energy_megatons, 0)>>,
            Progress(L.seismic_magnitude, F(10, 0)),
            "Energy-magnitude scaling relationships"),
     atmosphericDust |->
        ImpactMetric(FFormat(dust_bt, 1), "billion tons",
            GetDustSeverity(dust_bt),
            <<kw.diameter_m>>,
            Progress(dust_bt, F(100, 0)),
            "Impact ejecta scaling and atmospheric modeling")]
    IN Group(FDiv(L.atmospheric_dust_tons, F(1, 9)))

\* The "human_impact" group (lines 235-268).
HumanImpactMetrics(kw, L) ==
    [casualtiesImmediate |->
        ImpactMetric(FFormat(L.casualties, 0), "estimated casualties",
            GetCasualtySeverity(L.casualties),
            <<FFormat(L.shockwave_radius_km, 0)>>,
            Progress(L.casualties, F(10000000, 0)),
            "Population density models and lethality curves"),
     infrastructureDamage |->
        ImpactMetric(FFormat(L.infrastructure_damage_km, 0), "km radius affected",
            GetInfrastructureSeverity(L.infrastructure_damage_km),
            <<>>,
            Progress(L.infrastructure_damage_km, F(2000, 0)),
            "Engineering failure analysis and overpressure thresholds"),
     economicLoss |->
        ImpactMetric(FFormat(L.economic_loss_billion, 0), "billion USD",
            GetEconomicSeverity(L.economic_loss_billion),
            <<>>,
            Progress(L.economic_loss_billion, F(10000, 0)),
            "Disaster economics and regional GDP impact models"),
     refugeePopulation |->
        ImpactMetric(FFormat(L.refugees, 0), "displaced persons",
            GetRefugeeSeverity(L.refugees),
            <<FFormat(L.debris_radius_km, 0)>>,
            Progress(L.refugees, F(50000000, 0)),
            "Evacuation zone modeling and population displacement studies")]

\* A variant of the timeline whose shockwave arrival divides by the sound
\* speed in m/s, and that has lost its last entry.
TimelineShort(L) ==
    [t0 |-> [time |-> <<"0 seconds">>, event |-> <<>>],
     t1 |-> [time |-> <<"1 second">>, event |-> <<FFormat(L.fireball_radius_km, 1)>>],
     t2 |-> [time |-> <<"10 seconds">>, event |-> <<>>],
     t3 |-> [time |-> <<FFormat(FDiv(L.shockwave_radius_km, F(340, 0)), 0), "seconds">>,
             event |-> <<>>],
     t4 |-> [time |-> <<"5 minutes">>, event |-> <<>>],
     t5 |-> [time |-> <<"30 minutes">>, event |-> <<FFormat(L.seismic_magnitude, 1)>>],
     t6 |-> [time |-> <<"2 hours">>, event |-> <<>>],
     t7 |-> [time |-> <<"24 hours">>, event |-> <<>>]]

\* The "timeline" group (lines 269-279): label and the value its event names.
Timeline(L) ==
    [t0 |-> [time |-> <<"0 seconds">>, event |-> <<>>],
     t1 |-> [time |-> <<"1 second">>, event |-> <<FFormat(L.fireball_radius_km, 1)>>],
     t2 |-> [time |-> <<"10 seconds">>, event |-> <<>>],
     t3 |-> [time |-> <<FFormat(FDiv(L.shockwave_radius_km, F(34, -2)), 0), "seconds">>,
             event |-> <<>>],
     t4 |-> [time |-> <<"5 minutes">>, event |-> <<>>],
     t5 |-> [time |-> <<"30 minutes">>, event |-> <<FFormat(L.seismic_magnitude, 1)>>],
     t6 |-> [time |-> <<"2 hours">>, event |-> <<>>],
     t7 |-> [time |-> <<"24 hours">>, event |-> <<>>],
     t8 |-> [time |-> <<"1 week">>, event |-> <<>>]]

NoResults == [status |-> "none"]

\* _calculate_comprehensive_effects(**kwargs): the dictionary, or the raise.
CalculateComprehensiveEffects(kw) ==
    LET Results(L, exc) ==
            IF exc # Unset THEN [status |-> exc.t]
            ELSE [status |-> "ok",
                  immediate |-> ImmediateMetrics(kw, L),
                  environmental |-> EnvironmentalMetrics(kw, L),
                  human_impact |-> HumanImpactMetrics(kw, L),
                  timeline |-> Timeline(L)]
        Build(L) == Results(L, EffectsException(L))
    IN Build(EffectLocals(kw))

---------------------------------------------------------------------------
(* calculate_impact_scenario                                               *)

UnsetScenarioLocals ==
    [impact_velocity |-> Unset, mass_kg |-> Unset, density |-> Unset,
     diameter_m |-> Unset, energy_megatons |-> Unset]

\* The local variables of calculate_impact_scenario when it returns or raises
\* (lines 36-45): a raise leaves the later ones unset.
ScenarioLocals(ast, params, densities) ==
    LET Locals(impact_velocity, mass_kg, density) ==
            IF Raised(impact_velocity)
            THEN [UnsetScenarioLocals EXCEPT !.impact_velocity = impact_velocity]
            ELSE IF Raised(density)
            THEN [UnsetScenarioLocals EXCEPT !.impact_velocity = impact_velocity,
                                             !.mass_kg = mass_kg, !.density = density]
            ELSE [impact_velocity |-> impact_velocity, mass_kg |-> mass_kg,
                  density |-> density, diameter_m |-> ScenarioDiameterM(ast),
                  energy_megatons |-> EnergyMegatons(mass_kg, impact_velocity)]
    IN Locals(CalculateImpactVelocity(ast, params),
              CalculateAsteroidMass(ast, densities),
              ScenarioDensity(ast, densities))

\* A variant of the keyword arguments that takes the velocity back from the
\* engine's calculation_metadata once a call has stored one.
EffectsKwargsRemembered(L, params) ==
    [energy_megatons |-> L.energy_megatons, mass_kg |-> L.mass_kg,
     velocity_kms |->
        IF IsReal(calculation_metadata.impact_velocity_used)
        THEN calculation_metadata.impact_velocity_used
        ELSE L.impact_velocity,
     diameter_m |-> L.diameter_m,
     density |-> L.density, impact_angle |-> params.impact_angle_deg,
     target_density |-> params.target_density_kg_m3,
     location |-> params.impact_location]

\* The keyword arguments of the call at lines 48-57.
EffectsKwargs(L, params) ==
    [energy_megatons |-> L.energy_megatons, mass_kg |-> L.mass_kg,
     velocity_kms |-> L.impact_velocity, diameter_m |-> L.diameter_m,
     density |-> L.density, impact_angle |-> params.impact_angle_deg,
     target_density |-> params.target_density_kg_m3,
     location |-> params.impact_location]

ScenarioException(L) ==
    IF Raised(L.impact_velocity) THEN L.impact_velocity
    ELSE IF Raised(L.density) THEN L.density
    ELSE Unset

\* What calculate_impact_scenario returns (ImpactResults) or raises.
ScenarioOutcome(L, params) ==
    IF ScenarioException(L) # Unset THEN [status |-> ScenarioException(L).t]
    ELSE LET ImpactResults(results) ==
                 IF results.status # "ok" THEN results
                 ELSE [status |-> "ok",
                       immediate |-> results.immediate,
                       environmental |-> results.environmental,
                       human_impact |-> results.human_impact,
                       timeline |-> results.timeline,
                       asteroid_source |-> "nasa_neo",
                       calculation_method |-> "enhanced_physics",
                       confidence_level |-> F(85, -2)]
         IN ImpactResults(CalculateComprehensiveEffects(EffectsKwargs(L, params)))

EmptyMetadata ==
    [asteroid_source |-> "", calculation_method |-> "",
     impact_velocity_used |-> Unset, asteroid_mass_kg |-> Unset,
     kinetic_energy_mt |-> Unset, nasa_asteroid_id |-> ""]

\* self.calculation_metadata = {...} (lines 60-67), reached only when the
\* effects calculator returned.
ScenarioMetadata(ast, L) ==
    [asteroid_source |-> "nasa_neo", calculation_method |-> "enhanced_physics",
     impact_velocity_used |-> L.impact_velocity, asteroid_mass_kg |-> L.mass_kg,
     kinetic_energy_mt |-> L.energy_megatons, nasa_asteroid_id |-> ast.nasa_id]

---------------------------------------------------------------------------
(* Inputs                                                                  *)

MaxCalls == 3
MaxRequests == 2
EnergyExpMax == 12

Asteroid(diameter, density, composition, present, axis) ==
    [nasa_id |-> "3542519", estimated_diameter_km |-> diameter,
     density_kg_m3 |-> density, composition_type |-> composition,
     orbital_elements |-> [present |-> present, semi_major_axis_au |-> axis]]

ImpactParameters(velocity, angle, target_density) ==
    [asteroid_nasa_id |-> "3542519", impact_location |-> "Tokyo",
     impact_velocity_kms |-> velocity, impact_angle_deg |-> angle,
     target_density_kg_m3 |-> target_density]

\* Optional[float] fields carry no constraint (models/asteroid.py,
\* models/simulation.py): absent, zero, negative and positive all occur.
DiameterInputs == {None, Zero, F(-1, 0), F(1, 0), F(10, 0)}
DensityInputs == {None, Zero, F(-2600, 0), F(3000, 0)}
CompositionInputs == {"rocky", "iron", "icy", "stony", "carbonaceous"}
OrbitInputs ==
    {[present |-> FALSE, semi_major_axis_au |-> None]}
    \cup {[present |-> TRUE, semi_major_axis_au |-> a] :
            a \in {None, Zero, F(-15, -1), F(25, -1)}}
VelocityInputs == {None, Zero, F(-10, 0), F(72, 0)}
\* impact_angle_deg: Field(45, ge=15, le=90)
AngleInputs == {F(15, 0), F(45, 0), F(90, 0)}
TargetDensityInputs == {F(2700, 0), Zero, F(-2700, 0)}

AsteroidInputs ==
    {Asteroid(d, rho, c, o.present, o.semi_major_axis_au) :
        d \in DiameterInputs, rho \in DensityInputs,
        c \in CompositionInputs, o \in OrbitInputs}

\* Every velocity under the default conditions, and every angle and target
\* density with no velocity override.
ParameterInputs ==
    {ImpactParameters(v, F(45, 0), F(2700, 0)) : v \in VelocityInputs}
    \cup {ImpactParameters(None, a, td) :
            a \in AngleInputs, td \in TargetDensityInputs}

\* The requests of the repeated-call specification.
RepeatAsteroids ==
    {Asteroid(F(1, 0), None, "rocky", FALSE, None),
     Asteroid(F(5, -1), None, "iron", TRUE, F(25, -1))}
RepeatParameters ==
    {ImpactParameters(None, F(45, 0), F(2700, 0)),
     ImpactParameters(F(72, 0), F(90, 0), F(2700, 0))}

\* The inputs of the concurrent requests; the last asteroid has an
\* unrecognized composition, so its call ends with the KeyError of line 40.
ConcurrentInputs ==
    {<<Asteroid(F(1, 0), None, "rocky", FALSE, None),
       ImpactParameters(None, F(45, 0), F(2700, 0))>>,
     <<Asteroid(F(5, -1), None, "iron", TRUE, F(25, -1)),
       ImpactParameters(None, F(45, 0), F(2700, 0))>>,
     <<Asteroid(F(1, 0), None, "rocky", FALSE, None),
       ImpactParameters(F(72, 0), F(90, 0), F(2700, 0))>>,
     <<Asteroid(F(1, 0), None, "carbonaceous", FALSE, None),
       ImpactParameters(None, F(45, 0), F(2700, 0))>>}

\* Direct calls of the effects calculator.
EnergyInputs ==
    {Zero, F(-5, 1)}
    \cup {F(m, e) : m \in {1, 3}, e \in (0 - EnergyExpMax)..EnergyExpMax}
EffectsInputs ==
    {[energy_megatons |-> en, mass_kg |-> F(1361, 9), velocity_kms |-> v,
      diameter_m |-> F(1000, 0), density |-> F(2600, 0), impact_angle |-> a,
      target_density |-> td, location |-> "Tokyo"] :
        en \in EnergyInputs, v \in {F(-10, 0), F(20, 0), F(72, 0)},
        a \in AngleInputs, td \in TargetDensityInputs}

NoKwargs == [status |-> "none"]

\* Positive diameters (km) and densities (kg/m3), neighbouring floats among
\* them, for two calls of _calculate_asteroid_mass that differ in one input.
MassDiameters ==
    {F(1, -2), F(5, -1), F(1, 0), F(1001, -3), F(3314, -2), F(3315, -2),
     F(10, 0), F(9999, -1)}
MassDensities ==
    {F(1000, 0), F(2600, 0), F(2601, 0), F(3500, 0), F(6979, 0), F(6980, 0),
     F(7800, 0), F(9999, 0)}
MassCalls ==
    {[a1 |-> Asteroid(d1, rho1, "rocky", FALSE, None),
      a2 |-> Asteroid(d2, rho2, "rocky", FALSE, None)] :
        d1 \in MassDiameters, d2 \in MassDiameters,
        rho1 \in MassDensities, rho2 \in MassDensities}

\* The thresholds the classifiers compare against (lines 353-423).
SeverityThresholds ==
    {F(1, 0), F(2, 0), F(5, 0), F(7, 0), F(8, 0), F(10, 0), F(20, 0), F(50, 0),
     F(100, 0), F(200, 0), F(500, 0), F(1000, 0), F(2000, 0), F(2500, 0),
     F(5000, 0), F(10000, 0), F(20000, 0), F(50000, 0), F(100000, 0),
     F(1000000, 0), F(5000000, 0), F(20000000, 0)}
\* Each threshold, its two neighbours, and values far outside the bands.
SeverityInputs ==
    SeverityThresholds
    \cup {[t EXCEPT !.m = t.m + 1] : t \in SeverityThresholds \ {F(1, 0)}}
    \cup {F(1001, -3), F(9999, -4), F(1999, -3), F(4999, -3), F(6999, -3),
          F(7999, -3), F(9999, -3), F(1999, -2), F(4999, -2), F(9999, -2),
          F(1999, -1), F(4999, -1), F(9999, -1), F(1999, 0), F(2499, 0),
          F(4999, 0), F(9999, 0), F(1999, 1), F(4999, 1), F(9999, 1),
          F(9999, 2), F(4999, 3), F(1999, 4)}
    \cup {Zero, F(-5, 0), F(-3, 9), F(3, -9), F(9, 12)}
SeverityCalls ==
    {[classifier |-> c, v1 |-> a, v2 |-> b] :
        c \in SeverityClassifiers, a \in SeverityInputs, b \in SeverityInputs}

---------------------------------------------------------------------------
(* The simulation endpoint: NASA source, store and request                 *)

NoRequest == [status |-> "none"]
NoCalls == <<>>
NoResponse == [status_code |-> 0]
NoSource == [status |-> "none"]
NoAsteroid == [status |-> "none"]
EmptyStore == [asteroids |-> {}, simulations |-> <<>>]

\* pydantic's error for a document that does not validate.
ValidationError == [t |-> "ValidationError", m |-> 0, e |-> 0]

\* bson.ObjectId(id): a value of its own type, not a str.
ObjectId(id) == [t |-> "ObjectId", hex |-> id]

\* NASANEOService._extract_average_diameter
ExtractAverageDiameter(neo) ==
    IF ~IsNone(neo.estimated_diameter_min) /\ ~IsNone(neo.estimated_diameter_max)
    THEN FDiv(FAdd(neo.estimated_diameter_min, neo.estimated_diameter_max), F(2, 0))
    ELSE None

\* NASANEOService._estimate_composition
EstimateComposition(neo) ==
    IF Truthy(neo.absolute_magnitude_h) /\ FLt(neo.absolute_magnitude_h, F(15, 0))
    THEN "iron"
    ELSE "rocky"

\* NASANEOService._estimate_density
EstimateDensity(composition) ==
    CASE composition = "rocky" -> F(2600, 0)
      [] composition = "iron" -> F(7800, 0)
      [] composition = "icy" -> F(1000, 0)
      [] composition = "stony" -> F(3500, 0)
      [] OTHER -> F(2600, 0)

\* NASANEOService.parse_neo_to_asteroid: the Asteroid, or NoAsteroid when
\* the record lacks 'id' or 'name' (KeyError) or a field does not validate.
ParseNeoToAsteroid(neo) ==
    IF ~neo.has_id \/ ~neo.well_formed THEN NoAsteroid
    ELSE [Asteroid(ExtractAverageDiameter(neo),
                   EstimateDensity(EstimateComposition(neo)),
                   EstimateComposition(neo),
                   neo.orbital_data.present,
                   neo.orbital_data.semi_major_axis)
            EXCEPT !.nasa_id = neo.id]

\* The cached record of an identifier, NoAsteroid when there is none
\* (db.asteroids.find_one).
FindAsteroid(store, nasa_id) ==
    IF \E a \in store.asteroids : a.nasa_id = nasa_id
    THEN CHOOSE a \in store.asteroids : a.nasa_id = nasa_id
    ELSE NoAsteroid

\* The document the store keeps for asteroid.dict(): the dict carries the
\* field name 'id', not the alias, so the store assigns '_id' an ObjectId of
\* its own, one per document (named after the nasa_id here).
AsteroidDocument(a) ==
    [k \in DOMAIN a \cup {"_id"} |->
        IF k = "_id" THEN ObjectId(a.nasa_id) ELSE a[k]]

\* Asteroid(**document), models/asteroid.py lines 28-30: `id` is a str field
\* with alias "_id", validation takes the value under the alias, and an
\* ObjectId is not a str, so a document read back from the store does not
\* validate.
ValidateAsteroid(document) ==
    IF document._id.t = "ObjectId" THEN ValidationError
    ELSE [k \in DOMAIN document \ {"_id"} |-> document[k]]

\* db.asteroids.update_one({"nasa_id": ...}, {"$set": ...}, upsert=True)
UpsertAsteroid(store, a) ==
    [store EXCEPT !.asteroids =
        {c \in store.asteroids : c.nasa_id # a.nasa_id} \cup {AsteroidDocument(a)}]

\* A variant of the fetch that falls back to a default body when the source
\* gives nothing.
FetchAsteroidDefault(source) ==
    IF source.status # "ok" THEN Asteroid(F(1, 0), None, "rocky", FALSE, None)
    ELSE ParseNeoToAsteroid(source.neo_data)

\* What the NASA source of _get_asteroid_data yields: the parsed Asteroid,
\* or NoAsteroid when the request fails or the record cannot be parsed.
FetchAsteroid(source) ==
    IF source.status # "ok" THEN NoAsteroid
    ELSE ParseNeoToAsteroid(source.neo_data)

\* Records of the NASA source: with and without 'id', the diameter estimate
\* and the orbital data, and one a field of which does not validate.
NeoInputs ==
    {[id |-> "3542519", has_id |-> h, well_formed |-> w,
      estimated_diameter_min |-> d[1], estimated_diameter_max |-> d[2],
      absolute_magnitude_h |-> mag, orbital_data |-> o] :
        h \in BOOLEAN, w \in BOOLEAN,
        d \in {<<None, None>>, <<F(8, -1), F(12, -1)>>, <<Zero, Zero>>},
        mag \in {None, F(14, 0), F(20, 0)},
        o \in {[present |-> FALSE, semi_major_axis |-> None],
               [present |-> TRUE, semi_major_axis |-> F(25, -1)]}}
NoNeoData == [status |-> "none"]
\* The answers of the NASA source: a record, no API key configured, or a
\* failed HTTP request (nasa_neo_service.py lines 30-55).
SourceInputs ==
    {[status |-> "ok", neo_data |-> n] : n \in NeoInputs}
    \cup {[status |-> st, neo_data |-> NoNeoData] :
            st \in {"no_api_key", "request_failed"}}
\* The store before the request: no cached asteroid, or one cached by an
\* earlier lookup.
StoreInputs ==
    {EmptyStore}
    \cup {UpsertAsteroid(EmptyStore, ParseNeoToAsteroid(n)) :
            n \in {x \in NeoInputs : x.has_id /\ x.well_formed}}
\* The bodies posted to /run; the angles 10 and 95 lie outside [15, 90], and
\* the target density 0 (the field has no constraint) makes the engine raise.
RequestInputs ==
    {[parameters |-> ImpactParameters(None, a, F(2700, 0))] :
        a \in {F(10, 0), F(15, 0), F(45, 0), F(90, 0), F(95, 0)}}
    \cup {[parameters |-> ImpactParameters(None, F(45, 0), Zero)]}
NoParameters == [status |-> "none"]

\* FastAPI validates the body against SimulationCreate before the handler
\* runs: impact_angle_deg is Field(45, ge=15, le=90).
ValidateRequest ==
    /\ pc = "received"
    /\ IF FLt(request.parameters.impact_angle_deg, F(15, 0))
          \/ FGt(request.parameters.impact_angle_deg, F(90, 0))
       THEN /\ response' = [status_code |-> 422]
            /\ pc' = "responded"
       ELSE /\ response' = response
            /\ pc' = "handler"
    /\ UNCHANGED <<asteroid, parameters, kwargs, locals, outcome,
                   calculation_metadata, MATERIAL_DENSITIES, history,
                   request, db, nasa, calls>>

\* run_enhanced_simulation lines 28-37 with _get_asteroid_data: the cached
\* record, else the fetched one (upserted), else 404. The cached document is
\* validated outside the try of _get_asteroid_data (line 288), so its
\* ValidationError reaches lines 65-70 and becomes a 500.
GetAsteroidData ==
    /\ pc = "handler"
    /\ LET nasa_id == request.parameters.asteroid_nasa_id
           Failed ==
               /\ asteroid' = asteroid
               /\ db' = db
               /\ response' = [status_code |-> 500]
               /\ parameters' = parameters
               /\ pc' = "responded"
           Found(a, store) ==
               /\ asteroid' = a
               /\ db' = store
               /\ IF a = NoAsteroid
                  THEN /\ response' = [status_code |-> 404]
                       /\ parameters' = parameters
                       /\ pc' = "responded"
                  ELSE /\ response' = response
                       /\ parameters' = request.parameters
                       /\ pc' = "ready"
           Fetched(a) ==
               IF a = NoAsteroid THEN Found(NoAsteroid, db)
               ELSE Found(a, UpsertAsteroid(db, a))
           Validated(a) ==
               IF a = ValidationError THEN Failed ELSE Found(a, db)
           Cached(document) ==
               IF document # NoAsteroid THEN Validated(ValidateAsteroid(document))
               ELSE Fetched(FetchAsteroid(nasa))
       IN Cached(FindAsteroid(db, nasa_id))
    /\ UNCHANGED <<kwargs, locals, outcome, calculation_metadata,
                   MATERIAL_DENSITIES, history, request, nasa, calls>>

\* A variant of the end of the handler that also stores a record, without
\* results, when the engine raised.
SavedSimulationAlways(store, results, ast, params) ==
    IF results.status = "ok"
    THEN <<[store EXCEPT !.simulations =
                Append(@, [parameters |-> params, results |-> results,
                           asteroid_data |-> ast, nasa_enhanced |-> TRUE])],
           [status_code |-> 200]>>
    ELSE <<[store EXCEPT !.simulations =
                Append(@, [parameters |-> params, results |-> NoResults,
                           asteroid_data |-> ast, nasa_enhanced |-> TRUE])],
           [status_code |-> 500]>>

\* run_enhanced_simulation lines 44-70, the store and the response it leaves:
\* the record is inserted and returned, or the engine's exception becomes a
\* 500 with nothing inserted.
SavedSimulation(store, results, ast, params) ==
    IF results.status = "ok"
    THEN <<[store EXCEPT !.simulations =
                Append(@, [parameters |-> params, results |-> results,
                           asteroid_data |-> ast, nasa_enhanced |-> TRUE])],
           [status_code |-> 200]>>
    ELSE <<store, [status_code |-> 500]>>

\* run_enhanced_simulation after the engine call.
SaveSimulation ==
    /\ pc = "done"
    /\ request # NoRequest
    /\ LET Saved(saved) ==
               /\ db' = saved[1]
               /\ response' = saved[2]
       IN Saved(SavedSimulation(db, outcome, asteroid, parameters))
    /\ pc' = "responded"
    /\ UNCHANGED <<asteroid, parameters, kwargs, locals, outcome,
                   calculation_metadata, MATERIAL_DENSITIES, history,
                   request, nasa, calls>>

---------------------------------------------------------------------------
(* Asteroid listing: search_asteroids and GET /api/neo/asteroids          *)

\* `if page > 50: break`
PageLimit == 50
MaxLimit == 3

\* A value of an Optional[bool] field.
Bool(b) == [t |-> "bool", v |-> b]

\* AsteroidFilter as get_asteroids builds it (has_close_approaches stays
\* None there) or as a caller of search_asteroids passes it.
AsteroidFilter(limit, diameter_min_km, diameter_max_km, potentially_hazardous, has_close_approaches) ==
    [limit |-> limit, diameter_min_km |-> diameter_min_km,
     diameter_max_km |-> diameter_max_km,
     potentially_hazardous |-> potentially_hazardous,
     has_close_approaches |-> has_close_approaches]

\* Records of the browse pages.
BrowseNeo(id, has_id, diameter, hazardous, approaches) ==
    [id |-> id, has_id |-> has_id,
     estimated_diameter_min |-> diameter[1],
     estimated_diameter_max |-> diameter[2],
     is_potentially_hazardous_asteroid |-> hazardous,
     close_approach_data |-> approaches]
Eros == BrowseNeo("2000433", TRUE, <<F(8, -1), F(12, -1)>>, TRUE, TRUE)
Pebble == BrowseNeo("3542519", TRUE, <<F(1, -1), F(3, -1)>>, FALSE, TRUE)
Unsized == BrowseNeo("54016", TRUE, <<None, None>>, FALSE, FALSE)
Nameless == BrowseNeo("", FALSE, <<F(8, -1), F(12, -1)>>, TRUE, FALSE)

\* _extract_average_diameter of each record of the browse pages.
CatalogueRecords == {Eros, Pebble, Unsized, Nameless}
AverageDiameter == [neo \in CatalogueRecords |-> ExtractAverageDiameter(neo)]

\* NASANEOService._matches_filter: a record without a diameter estimate
\* passes the diameter tests.
MatchesFilter(neo, filters) ==
    LET DiameterOk(diameter_km) ==
            ~Truthy(diameter_km)
            \/ /\ ~(Truthy(filters.diameter_min_km)
                      /\ FLt(diameter_km, filters.diameter_min_km))
               /\ ~(Truthy(filters.diameter_max_km)
                      /\ FGt(diameter_km, filters.diameter_max_km))
    IN /\ DiameterOk(AverageDiameter[neo])
       /\ \/ IsNone(filters.potentially_hazardous)
          \/ Bool(neo.is_potentially_hazardous_asteroid) = filters.potentially_hazardous
       /\ (filters.has_close_approaches = Bool(TRUE)) => neo.close_approach_data

\* get_neo_browse(limit=20, page): _make_request raises RuntimeError when no
\* API key is configured or the HTTP request fails; past the last page the
\* source answers with an empty list.
GetNeoBrowse(source, page) ==
    IF source.status # "ok" \/ page = source.fail_at
    THEN [status |-> "failed", near_earth_objects |-> <<>>]
    ELSE IF page >= source.pages
    THEN [status |-> "ok", near_earth_objects |-> <<>>]
    ELSE [status |-> "ok",
          near_earth_objects |->
              source.catalogue[(page % Len(source.catalogue)) + 1]]

\* The for loop of search_asteroids (lines 93-99) from the i-th record on.
RECURSIVE CollectMatching(_, _, _, _)
CollectMatching(neos, filters, all_asteroids, i) ==
    IF i > Len(neos) \/ Len(all_asteroids) >= filters.limit THEN all_asteroids
    ELSE CollectMatching(neos, filters,
                         IF MatchesFilter(neos[i], filters)
                         THEN Append(all_asteroids, neos[i])
                         ELSE all_asteroids,
                         i + 1)

\* The local variables of search_asteroids at its start; requests counts the
\* browse requests issued.
NewSearch(filters) ==
    [filters |-> filters, all_asteroids |-> <<>>, page |-> 0, collected |-> 0,
     requests |-> 0, done |-> FALSE]

\* A variant of the loop body that goes on to the next page after an empty
\* one.
SearchIterationPastEmpty(L, source) ==
    IF ~(L.collected < L.filters.limit) THEN [L EXCEPT !.done = TRUE]
    ELSE LET Collected(all_asteroids) ==
                 [L EXCEPT !.all_asteroids = all_asteroids,
                           !.collected = Len(all_asteroids),
                           !.page = L.page + 1,
                           !.requests = L.requests + 1,
                           !.done = L.page + 1 > PageLimit]
             Got(browse_data) ==
                 IF browse_data.status # "ok"
                 THEN [L EXCEPT !.requests = L.requests + 1, !.done = TRUE]
                 ELSE Collected(CollectMatching(browse_data.near_earth_objects,
                                                L.filters, L.all_asteroids, 1))
         IN Got(GetNeoBrowse(source, L.page))

\* One pass of the while loop of search_asteroids (lines 83-109): done when
\* the loop is left.
SearchIteration(L, source) ==
    IF ~(L.collected < L.filters.limit) THEN [L EXCEPT !.done = TRUE]
    ELSE LET Collected(all_asteroids) ==
                 [L EXCEPT !.all_asteroids = all_asteroids,
                           !.collected = Len(all_asteroids),
                           !.page = L.page + 1,
                           !.requests = L.requests + 1,
                           !.done = L.page + 1 > PageLimit]
             Got(browse_data) ==
                 IF browse_data.status # "ok"
                    \/ browse_data.near_earth_objects = <<>>
                 THEN [L EXCEPT !.requests = L.requests + 1, !.done = TRUE]
                 ELSE Collected(CollectMatching(browse_data.near_earth_objects,
                                                L.filters, L.all_asteroids, 1))
         IN Got(GetNeoBrowse(source, L.page))

\* parse_neo_to_asteroid with the fields the listing shows: NoAsteroid when
\* the record has no 'id' (KeyError).
ParseListedAsteroid(neo) ==
    IF ~neo.has_id THEN NoAsteroid
    ELSE [nasa_id |-> neo.id,
          estimated_diameter_km |-> ExtractAverageDiameter(neo),
          potentially_hazardous |-> neo.is_potentially_hazardous_asteroid,
          is_active |-> TRUE]

\* The loop of get_asteroids lines 68-86: each record that parses is
\* upserted and appended, the others are skipped. The result is the pair of
\* the store and the list.
RECURSIVE CacheListed(_, _, _, _)
CacheListed(neo_data_list, store, asteroids, i) ==
    IF i > Len(neo_data_list) THEN <<store, asteroids>>
    ELSE LET Parsed(a) ==
                 IF a = NoAsteroid
                 THEN CacheListed(neo_data_list, store, asteroids, i + 1)
                 ELSE CacheListed(neo_data_list, UpsertAsteroid(store, a),
                                  Append(asteroids, a), i + 1)
         IN Parsed(ParseListedAsteroid(neo_data_list[i]))

\* AsteroidSearchResult(asteroids=..., total=len, limit=limit, offset=0,
\* has_more=len == limit)
AsteroidSearchResult(asteroids, limit) ==
    [status_code |-> 200, asteroids |-> asteroids, total |-> Len(asteroids),
     limit |-> limit, offset |-> 0, has_more |-> (Len(asteroids) = limit)]

\* The lists db.asteroids.find({"is_active": True}, limit=limit) can give:
\* any `limit` of the active records (all of them when there are fewer), in
\* any order.
CachedLists(store, limit) ==
    LET active == {a \in store.asteroids : a.is_active}
        n == IF Cardinality(active) < limit THEN Cardinality(active) ELSE limit
    IN {q \in [1..n -> active] : \A i, j \in 1..n : i # j => q[i] # q[j]}

\* The NASA source of the browse requests: the number of non-empty pages,
\* the page whose request fails (-1: none) and what the pages hold.
BrowseSources ==
    {[status |-> st, pages |-> n, fail_at |-> f, catalogue |-> c] :
        st \in {"ok", "no_api_key"},
        n \in {0, 1, 3, PageLimit + 10},
        f \in {-1, 0, 2},
        c \in {<<<<Eros, Pebble>>, <<Unsized, Nameless>>>>, <<<<Pebble>>>>}}

\* Filters of direct calls of search_asteroids.
SearchFilters ==
    {AsteroidFilter(l, d[1], d[2], h, c) :
        l \in 1..MaxLimit,
        d \in {<<None, None>>, <<F(5, -1), None>>, <<None, F(5, -1)>>},
        h \in {None, Bool(TRUE), Bool(FALSE)},
        c \in {None, Bool(TRUE)}}

\* Query strings of GET /api/neo/asteroids: limit is Query(20, ge=1, le=100),
\* the diameters Query(None, ge=0.001).
ListingRequests ==
    {[limit |-> l, diameter_min_km |-> d[1], diameter_max_km |-> d[2],
      potentially_hazardous |-> h, refresh_cache |-> r] :
        l \in 1..MaxLimit,
        d \in {<<None, None>>, <<F(5, -1), None>>, <<None, F(5, -1)>>},
        h \in {None, Bool(TRUE), Bool(FALSE)},
        r \in BOOLEAN}

\* The cache before the request: empty, or filled by earlier listings.
ListingStores ==
    {EmptyStore,
     CacheListed(<<Pebble>>, EmptyStore, <<>>, 1)[1],
     CacheListed(<<Eros, Pebble, Unsized>>, EmptyStore, <<>>, 1)[1]}

\* search_asteroids is called, with any of the filters, the NASA source
\* being in any of its states.
SearchAsteroids ==
    /\ pc = "idle"
    /\ nasa' \in BrowseSources
    /\ \E filters \in SearchFilters : locals' = NewSearch(filters)
    /\ pc' = "search"
    /\ UNCHANGED <<asteroid, parameters, kwargs, outcome, calculation_metadata,
                   MATERIAL_DENSITIES, history, request, response, db, calls>>

\* search_asteroids: one pass of its while loop.
SearchPage ==
    /\ pc = "search"
    /\ LET Pass(L) ==
               /\ locals' = L
               /\ pc' = IF L.done THEN "searched" ELSE "search"
       IN Pass(SearchIteration(locals, nasa))
    /\ UNCHANGED <<asteroid, parameters, kwargs, outcome, calculation_metadata,
                   MATERIAL_DENSITIES, history, request, response, db, nasa,
                   calls>>

\* get_asteroids lines 39-62: the cached records are validated and returned
\* when there are any and no refresh is asked for (a ValidationError becomes
\* the 500 of lines 96-98); otherwise the search starts.
CheckCache ==
    /\ pc = "listing"
    /\ IF ~request.refresh_cache /\ CachedLists(db, request.limit) # {<<>>}
       THEN /\ \E cached_asteroids \in CachedLists(db, request.limit) :
                  LET asteroids == [i \in DOMAIN cached_asteroids |->
                                       ValidateAsteroid(cached_asteroids[i])]
                  IN response' =
                        IF \E i \in DOMAIN asteroids : asteroids[i] = ValidationError
                        THEN [status_code |-> 500]
                        ELSE AsteroidSearchResult(asteroids, request.limit)
            /\ locals' = locals
            /\ pc' = "responded"
       ELSE /\ response' = response
            /\ locals' = NewSearch(AsteroidFilter(request.limit,
                                                  request.diameter_min_km,
                                                  request.diameter_max_km,
                                                  request.potentially_hazardous,
                                                  None))
            /\ pc' = "search"
    /\ UNCHANGED <<asteroid, parameters, kwargs, outcome, calculation_metadata,
                   MATERIAL_DENSITIES, history, request, db, nasa, calls>>

\* get_asteroids lines 68-94: the found records are parsed, cached and
\* returned.
CacheAsteroids ==
    /\ pc = "searched"
    /\ request # NoRequest
    /\ LET Return(cached) ==
               /\ db' = cached[1]
               /\ response' = AsteroidSearchResult(cached[2], request.limit)
       IN Return(CacheListed(locals.all_asteroids, db, <<>>, 1))
    /\ pc' = "responded"
    /\ UNCHANGED <<asteroid, parameters, kwargs, locals, outcome,
                   calculation_metadata, MATERIAL_DENSITIES, history, request,
                   nasa, calls>>

---------------------------------------------------------------------------
(* Stored simulations: compare_simulations and update_simulation          *)

MaxIds == 6

\* An identifier of 24 equal characters.
Hex24(c) == [i \in 1..24 |-> c]
HexDigits ==
    {"0", "1", "2", "3", "4", "5", "6", "7", "8", "9",
     "a", "b", "c", "d", "e", "f"}

\* bson.ObjectId.is_valid on a string: 24 hexadecimal characters.
ObjectIdIsValid(id) == Len(id) = 24 /\ \A i \in 1..Len(id) : id[i] \in HexDigits

\* The document insert_one stores for simulation.dict() (line 56): the dict
\* has the field name 'id', not the alias, so the store assigns '_id' an
\* ObjectId of its own.
SimulationDocument(oid, id, name, results) ==
    [_id |-> ObjectId(oid), id |-> id,
     parameters |-> ImpactParameters(None, F(45, 0), F(2700, 0)),
     results |-> results,
     asteroid_data |-> Asteroid(F(1, 0), None, "rocky", FALSE, None),
     name |-> name, description |-> "", tags |-> {"nasa-enhanced", "rocky"},
     is_public |-> TRUE, updated_at |-> 0, nasa_enhanced |-> TRUE]

\* Simulation(**document), models/simulation.py lines 50-52: `id` is a str
\* field with alias "_id", validation takes the value under the alias, and
\* an ObjectId is not a str, so the document read back from the store does
\* not validate.
ValidateSimulation(document) ==
    IF document._id.t = "ObjectId" THEN ValidationError
    ELSE [document EXCEPT !.id = document._id.hex]

\* db.simulations.find_one({"_id": ObjectId(id)}): NoAsteroid's like, the
\* absent document is the value NoDocument.
NoDocument == [status |-> "none"]
FindSimulation(store, oid) ==
    IF \E i \in 1..Len(store.simulations) : store.simulations[i]._id = oid
    THEN store.simulations[
            CHOOSE i \in 1..Len(store.simulations) : store.simulations[i]._id = oid]
    ELSE NoDocument

\* _build_comparison_matrix: the four lists, one entry per simulation that
\* has results.
BuildComparisonMatrix(simulations) ==
    LET with_results == SelectSeq(simulations, LAMBDA sim : sim.results # NoResults)
        Column(group, key) ==
            [i \in 1..Len(with_results) |->
                [simulation_id |-> with_results[i].id,
                 name |-> with_results[i].name,
                 value |-> with_results[i].results[group][key].value]]
    IN [crater_diameters |-> Column("immediate", "craterDiameter"),
        energies |-> Column("immediate", "energy"),
        casualties |-> Column("human_impact", "casualtiesImmediate"),
        shockwave_radii |-> Column("environmental", "shockwaveRadius")]

\* compare_simulations lines 196-214 from the i-th id on: the response.
RECURSIVE FetchSimulations(_, _, _, _)
FetchSimulations(simulation_ids, store, simulations, i) ==
    IF i > Len(simulation_ids)
    THEN [status_code |-> 200, simulations |-> simulations,
          comparison_matrix |-> BuildComparisonMatrix(simulations),
          summary |-> [total_compared |-> Len(simulations)]]
    ELSE IF ~ObjectIdIsValid(simulation_ids[i])
    THEN [status_code |-> 400, detail |-> simulation_ids[i]]
    ELSE LET Found(sim_data) ==
                 IF sim_data = NoDocument
                 THEN [status_code |-> 404, detail |-> simulation_ids[i]]
                 ELSE IF ValidateSimulation(sim_data) = ValidationError
                 THEN [status_code |-> 500, detail |-> simulation_ids[i]]
                 ELSE FetchSimulations(simulation_ids, store,
                          Append(simulations, ValidateSimulation(sim_data)), i + 1)
         IN Found(FindSimulation(store, ObjectId(simulation_ids[i])))

\* The metrics _build_comparison_matrix reads, of a stored result.
StoredResults ==
    [status |-> "ok",
     immediate |-> [craterDiameter |-> [value |-> F(2040, -2)],
                    energy |-> [value |-> F(6506, 1)]],
     human_impact |-> [casualtiesImmediate |-> [value |-> F(2170, 5)]],
     environmental |-> [shockwaveRadius |-> [value |-> F(4112, -1)]]]

\* The store of the simulation requests: two simulations saved by /run.
SimulationStore ==
    [asteroids |-> {},
     simulations |->
        <<SimulationDocument(Hex24("a"), Hex24("1"), "Impact: Eros", StoredResults),
          SimulationDocument(Hex24("b"), Hex24("2"), "Impact: Apophis", StoredResults)>>]

\* The ids a request names: of a stored simulation, of none, 24 characters
\* that are not hexadecimal, and a short string.
IdInputs == {Hex24("a"), Hex24("c"), Hex24("z"), <<"a", "b", "c">>}
RECURSIVE IdLists(_)
IdLists(n) ==
    IF n = 0 THEN {<<>>}
    ELSE IdLists(n - 1)
         \cup {Append(ids, id) : ids \in {l \in IdLists(n - 1) : Len(l) = n - 1},
                                 id \in IdInputs}

\* POST /api/simulation/compare
CompareSimulations ==
    /\ pc = "compare"
    /\ response' =
          IF Len(request.simulation_ids) < 2 \/ Len(request.simulation_ids) > 5
          THEN [status_code |-> 400, detail |-> <<>>]
          ELSE FetchSimulations(request.simulation_ids, db, <<>>, 1)
    /\ pc' = "responded"
    /\ UNCHANGED <<asteroid, parameters, kwargs, locals, outcome,
                   calculation_metadata, MATERIAL_DENSITIES, history, request,
                   db, nasa, calls>>

---------------------------------------------------------------------------
(* PUT /api/simulation/{simulation_id}                                    *)

MaxUpdates == 2

\* A field of a request body that is not null.
Some(v) == [t |-> "some", v |-> v]

\* models/simulation.py SimulationUpdate: each field is None or a value.
SimulationUpdate(name, description, tags, is_public) ==
    [name |-> name, description |-> description, tags |-> tags,
     is_public |-> is_public]

\* The fields of SimulationUpdate.
MetadataFields == {"name", "description", "tags", "is_public"}

\* The bodies of the update requests; the empty tag list and is_public false
\* are values, not null.
UpdateRequests ==
    {SimulationUpdate(n, d, t, p) :
        n \in {None, Some("Renamed")},
        d \in {None, Some("revised")},
        t \in {None, Some({})},
        p \in {None, Some(FALSE)}}

\* A variant of update_data that leaves out the fields whose value is falsy.
UpdateDataTruthy(update_request, now) ==
    [k \in {"updated_at"}
            \cup {f \in MetadataFields :
                     /\ ~IsNone(update_request[f])
                     /\ (f = "tags") => update_request[f].v # {}
                     /\ (f = "is_public") => update_request[f].v
                     /\ (f \in {"name", "description"})
                           => update_request[f].v # ""} |->
        IF k = "updated_at" THEN now ELSE update_request[k].v]

\* update_data of lines 133-142: updated_at and the fields that are not None.
UpdateData(update_request, now) ==
    [k \in {"updated_at"}
            \cup {f \in MetadataFields : ~IsNone(update_request[f])} |->
        IF k = "updated_at" THEN now ELSE update_request[k].v]

\* {"$set": update_data} on a document.
SetFields(document, update_data) ==
    [k \in DOMAIN document \cup DOMAIN update_data |->
        IF k \in DOMAIN update_data THEN update_data[k] ELSE document[k]]

\* db.simulations.update_one({"_id": oid}, {"$set": update_data}): the first
\* document with the _id is changed; the result is the store and
\* matched_count.
UpdateOne(store, oid, update_data) ==
    LET matching == {i \in 1..Len(store.simulations) :
                        store.simulations[i]._id = oid}
    IN IF matching = {} THEN [db |-> store, matched_count |-> 0]
       ELSE [db |-> [store EXCEPT !.simulations =
                        [i \in 1..Len(store.simulations) |->
                            IF i \in matching /\ \A j \in matching : i <= j
                            THEN SetFields(store.simulations[i], update_data)
                            ELSE store.simulations[i]]],
             matched_count |-> 1]

\* update_simulation lines 128-161: the store afterwards and the response.
UpdatedSimulation(store, simulation_id, update_request, now) ==
    IF ~ObjectIdIsValid(simulation_id)
    THEN [db |-> store, response |-> [status_code |-> 400]]
    ELSE LET Returned(store_after, simulation_data) ==
                 [db |-> store_after,
                  response |->
                     IF ValidateSimulation(simulation_data) = ValidationError
                     THEN [status_code |-> 500]
                     ELSE [status_code |-> 200,
                           simulation |-> ValidateSimulation(simulation_data)]]
             Updated(result) ==
                 IF result.matched_count = 0
                 THEN [db |-> result.db, response |-> [status_code |-> 404]]
                 ELSE Returned(result.db,
                               FindSimulation(result.db, ObjectId(simulation_id)))
         IN Updated(UpdateOne(store, ObjectId(simulation_id),
                              UpdateData(update_request, now)))

\* PUT /api/simulation/{simulation_id}; datetime.utcnow() reads the number
\* of the request.
UpdateSimulation ==
    /\ pc = "update"
    /\ Len(history) < MaxUpdates
    /\ \E simulation_id \in IdInputs, update_request \in UpdateRequests :
          LET Handled(put, done) ==
                  /\ request' = put
                  /\ db' = done.db
                  /\ response' = done.response
                  /\ history' = Append(history, put)
          IN Handled([simulation_id |-> simulation_id,
                      update_request |-> update_request,
                      now |-> Len(history) + 1],
                     UpdatedSimulation(db, simulation_id, update_request,
                                       Len(history) + 1))
    /\ UNCHANGED <<pc, asteroid, parameters, kwargs, locals, outcome,
                   calculation_metadata, MATERIAL_DENSITIES, nasa, calls>>

---------------------------------------------------------------------------
(* The asteroid cache: lookups by identifier and the sync task            *)

MaxLookups == 3

\* The record the NASA source holds for an identifier.
NeoRecord(id) ==
    [id |-> id, has_id |-> TRUE, well_formed |-> TRUE,
     estimated_diameter_min |-> F(8, -1), estimated_diameter_max |-> F(12, -1),
     absolute_magnitude_h |-> F(20, 0),
     orbital_data |-> [present |-> FALSE, semi_major_axis |-> None]]

\* The NASA source of the cache requests: its state, the identifiers it
\* knows, and its browse pages (the last record has no 'id').
CacheSources ==
    {[status |-> st, known |-> {"3542519", "2000433"}, fail_at |-> -1,
      pages |-> 2,
      catalogue |-> <<<<NeoRecord("3542519"), NeoRecord("2000433")>>,
                      <<NeoRecord("54016"),
                        [NeoRecord("") EXCEPT !.has_id = FALSE]>>>>] :
        st \in {"ok", "no_api_key", "request_failed"}}

\* get_neo_by_id(nasa_id): the record, or the RuntimeError of _make_request
\* (no key, failed request, identifier unknown to NASA).
GetNeoById(source, nasa_id) ==
    IF source.status = "ok" /\ nasa_id \in source.known
    THEN [status |-> "ok", neo_data |-> NeoRecord(nasa_id)]
    ELSE [status |-> "request_failed", neo_data |-> NoNeoData]

\* What a lookup leaves: the store, the answer, and whether
\* service.get_neo_by_id was called.
\* _get_asteroid_data (lines 282-307) and get_asteroid_by_id (nasa_neo.py
\* lines 100-126) alike look in the cache first; the cached document is
\* validated, the missing one fetched, parsed and upserted.
LookupAsteroid(store, source, nasa_id) ==
    LET Fetched(a) ==
            IF a = NoAsteroid
            THEN [db |-> store, answer |-> NoAsteroid, contacted |-> TRUE]
            ELSE [db |-> UpsertAsteroid(store, a), answer |-> a, contacted |-> TRUE]
        Cached(document) ==
            IF document # NoAsteroid
            THEN [db |-> store, answer |-> ValidateAsteroid(document),
                  contacted |-> FALSE]
            ELSE Fetched(FetchAsteroid(GetNeoById(source, nasa_id)))
    IN Cached(FindAsteroid(store, nasa_id))

\* The inner loop of sync_task (lines 198-212): each record that parses is
\* upserted.
RECURSIVE SyncRecords(_, _, _)
SyncRecords(neos, store, i) ==
    IF i > Len(neos) THEN store
    ELSE LET Parsed(a) ==
                 IF a = NoAsteroid THEN SyncRecords(neos, store, i + 1)
                 ELSE SyncRecords(neos, UpsertAsteroid(store, a), i + 1)
         IN Parsed(ParseNeoToAsteroid(neos[i]))

\* sync_task (lines 183-218) from a page on: ten pages at most, stopping at
\* an empty or failed one.
RECURSIVE SyncPages(_, _, _)
SyncPages(source, store, page) ==
    IF page >= 10 THEN store
    ELSE LET Got(browse_data) ==
                 IF browse_data.status # "ok"
                    \/ browse_data.near_earth_objects = <<>>
                 THEN store
                 ELSE SyncPages(source,
                                SyncRecords(browse_data.near_earth_objects, store, 1),
                                page + 1)
         IN Got(GetNeoBrowse(source, page))

\* The identifiers looked up: two NASA knows and one it does not.
LookupIds == {"3542519", "2000433", "0"}

\* run_enhanced_simulation's _get_asteroid_data or GET /api/neo/asteroid/{id}.
Lookup ==
    /\ pc = "cache"
    /\ Len(history) < MaxLookups
    /\ \E handler \in {"_get_asteroid_data", "get_asteroid_by_id"},
          nasa_id \in LookupIds :
          LET Done(looked) ==
                  /\ db' = looked.db
                  /\ response' =
                        IF looked.answer = NoAsteroid
                        THEN [status_code |-> 404]
                        ELSE IF looked.answer = ValidationError
                        THEN [status_code |->
                                 IF handler = "get_asteroid_by_id" THEN 404 ELSE 500]
                        ELSE [status_code |-> 200, asteroid |-> looked.answer]
                  /\ history' = Append(history,
                                       [handler |-> handler, nasa_id |-> nasa_id,
                                        cached |-> FindAsteroid(db, nasa_id) # NoAsteroid,
                                        contacted |-> looked.contacted,
                                        answer |-> looked.answer])
          IN Done(LookupAsteroid(db, nasa, nasa_id))
    /\ UNCHANGED <<pc, asteroid, parameters, kwargs, locals, outcome,
                   calculation_metadata, MATERIAL_DENSITIES, request, nasa, calls>>

\* POST /api/neo/sync: the background task.
SyncNasaData ==
    /\ pc = "cache"
    /\ Len(history) < MaxLookups
    /\ db' = SyncPages(nasa, db, 0)
    /\ response' = [status_code |-> 200]
    /\ history' = Append(history,
                         [handler |-> "sync_nasa_data", nasa_id |-> "",
                          cached |-> FALSE, contacted |-> TRUE,
                          answer |-> NoAsteroid])
    /\ UNCHANGED <<pc, asteroid, parameters, kwargs, locals, outcome,
                   calculation_metadata, MATERIAL_DENSITIES, request, nasa, calls>>

---------------------------------------------------------------------------
(* The shared NASANEOService: `async with nasa_neo_service` by concurrent  *)
(* requests                                                                *)

\* The singleton after construction (lines 14-20, 265-266): self.session is
\* None, here 0, and no ClientSession has been created.
NewService == [session |-> 0, sessions |-> <<>>]

\* A request before it reaches its `async with`.
NewRequest == [pc |-> "start", requests |-> 0, used |-> 0, on_closed |-> FALSE]

\* __aenter__ (lines 22-24): self.session = aiohttp.ClientSession(), whatever
\* self.session held.
AEnter(r) ==
    /\ pc = "sessions"
    /\ calls[r].pc = "start"
    /\ nasa' = [session |-> Len(nasa.sessions) + 1,
                sessions |-> Append(nasa.sessions, "open")]
    /\ calls' = [calls EXCEPT ![r].pc = "inside"]
    /\ UNCHANGED <<pc, asteroid, parameters, kwargs, locals, outcome,
                   calculation_metadata, MATERIAL_DENSITIES, history, request,
                   response, db>>

\* _make_request (lines 30-55) up to the await of self.session.get: the call
\* goes out on whatever session self.session names now; a closed
\* ClientSession raises RuntimeError, which leaves the block.
MakeRequest(r) ==
    /\ pc = "sessions"
    /\ calls[r].pc = "inside"
    /\ calls[r].requests < 2
    /\ IF nasa.sessions[nasa.session] = "open"
       THEN calls' = [calls EXCEPT ![r].pc = "awaiting",
                                   ![r].requests = @ + 1,
                                   ![r].used = nasa.session]
       ELSE calls' = [calls EXCEPT ![r].pc = "raised",
                                   ![r].requests = @ + 1,
                                   ![r].used = nasa.session,
                                   ![r].on_closed = TRUE]
    /\ UNCHANGED <<pc, asteroid, parameters, kwargs, locals, outcome,
                   calculation_metadata, MATERIAL_DENSITIES, history, request,
                   response, db, nasa>>

\* The answer of the HTTP request resumes the coroutine inside its block;
\* when the session the call went out on has been closed meanwhile, the
\* call fails with a ClientError instead (lines 52-54: RuntimeError).
ReceiveResponse(r) ==
    /\ pc = "sessions"
    /\ calls[r].pc = "awaiting"
    /\ IF nasa.sessions[calls[r].used] = "open"
       THEN calls' = [calls EXCEPT ![r].pc = "inside"]
       ELSE calls' = [calls EXCEPT ![r].pc = "raised", ![r].on_closed = TRUE]
    /\ UNCHANGED <<pc, asteroid, parameters, kwargs, locals, outcome,
                   calculation_metadata, MATERIAL_DENSITIES, history, request,
                   response, db, nasa>>

\* __aexit__ (lines 26-28), at the end of the block or on its exception:
\* closes the session self.session names now.
AExit(r) ==
    /\ pc = "sessions"
    /\ \/ calls[r].pc = "inside" /\ calls[r].requests > 0
       \/ calls[r].pc = "raised"
    /\ nasa' = IF nasa.session # 0
               THEN [nasa EXCEPT !.sessions[nasa.session] = "closed"]
               ELSE nasa
    /\ calls' = [calls EXCEPT ![r].pc = "exited"]
    /\ UNCHANGED <<pc, asteroid, parameters, kwargs, locals, outcome,
                   calculation_metadata, MATERIAL_DENSITIES, history, request,
                   response, db>>

---------------------------------------------------------------------------
(* The state machine                                                       *)

\* The engine instance after construction, no call made yet.
InitEngine ==
    /\ locals = UnsetScenarioLocals
    /\ outcome = NoResults
    /\ calculation_metadata = EmptyMetadata
    /\ MATERIAL_DENSITIES = MaterialDensityTable
    /\ history = <<>>

\* The engine called directly, with no endpoint around it.
InitCommon ==
    /\ pc = "ready"
    /\ InitEngine
    /\ request = NoRequest
    /\ response = NoResponse
    /\ db = EmptyStore
    /\ nasa = NoSource
    /\ calls = NoCalls

\* physics_engine.calculate_impact_scenario(asteroid, params), as called at
\* routers/enhanced_simulation.py line 42.
CalculateImpactScenario ==
    /\ pc = "ready"
    /\ kwargs = NoKwargs
    /\ LET Return(L, result) ==
               /\ locals' = L
               /\ outcome' = result
               /\ calculation_metadata' =
                     IF result.status = "ok" THEN ScenarioMetadata(asteroid, L)
                     ELSE calculation_metadata
               /\ history' = Append(history, <<asteroid, parameters, result>>)
           Call(L) == Return(L, ScenarioOutcome(L, parameters))
       IN Call(ScenarioLocals(asteroid, parameters, MATERIAL_DENSITIES))
    /\ pc' = "done"
    /\ UNCHANGED <<asteroid, parameters, kwargs, MATERIAL_DENSITIES, service>>

\* The next request reaches the shared engine instance.
NextRequest ==
    /\ pc = "done"
    /\ kwargs = NoKwargs
    /\ Len(history) < MaxCalls
    /\ asteroid' \in RepeatAsteroids
    /\ parameters' \in RepeatParameters
    /\ pc' = "ready"
    /\ UNCHANGED <<kwargs, locals, outcome, calculation_metadata,
                   MATERIAL_DENSITIES, history, service>>

\* physics_engine._calculate_comprehensive_effects(**kwargs) called directly.
ComprehensiveEffectsCall ==
    /\ pc = "ready"
    /\ kwargs # NoKwargs
    /\ locals' = EffectLocals(kwargs)
    /\ outcome' = CalculateComprehensiveEffects(kwargs)
    /\ pc' = "done"
    /\ UNCHANGED <<asteroid, parameters, kwargs, calculation_metadata,
                   MATERIAL_DENSITIES, history, service>>

\* The requests whose calls of the engine run concurrently.
Requests == 1..MaxRequests

\* A call of calculate_impact_scenario about to start; alone is auxiliary,
\* the outcome the same inputs give on an engine that no other request uses.
NewCall(ast, params) ==
    [pc |-> "velocity", asteroid |-> ast, parameters |-> params,
     locals |-> UnsetScenarioLocals, results |-> NoResults, outcome |-> NoResults,
     alone |-> ScenarioOutcome(ScenarioLocals(ast, params, MaterialDensityTable),
                               params)]

\* What a step of one call leaves alone besides the engine's fields.
callers == <<pc, asteroid, parameters, kwargs, locals, outcome, history,
             request, response, db, nasa>>

\* line 36: impact_velocity = self._calculate_impact_velocity(...)
ResolveVelocity(r) ==
    /\ calls[r].pc = "velocity"
    /\ LET Step(v) ==
               calls' = [calls EXCEPT ![r] =
                   IF Raised(v)
                   THEN [@ EXCEPT !.pc = "done", !.locals.impact_velocity = v,
                                  !.outcome = [status |-> v.t]]
                   ELSE [@ EXCEPT !.pc = "mass", !.locals.impact_velocity = v]]
       IN Step(CalculateImpactVelocity(calls[r].asteroid, calls[r].parameters))
    /\ UNCHANGED <<callers, calculation_metadata, MATERIAL_DENSITIES>>

\* line 39: mass_kg = self._calculate_asteroid_mass(asteroid)
ResolveMass(r) ==
    /\ calls[r].pc = "mass"
    /\ calls' = [calls EXCEPT ![r] =
            [@ EXCEPT !.pc = "density",
                      !.locals.mass_kg =
                          CalculateAsteroidMass(calls[r].asteroid, MATERIAL_DENSITIES)]]
    /\ UNCHANGED <<callers, calculation_metadata, MATERIAL_DENSITIES>>

\* lines 40-41: density (a KeyError ends the call) and diameter_m
ResolveDensity(r) ==
    /\ calls[r].pc = "density"
    /\ LET Step(density) ==
               calls' = [calls EXCEPT ![r] =
                   IF Raised(density)
                   THEN [@ EXCEPT !.pc = "done", !.locals.density = density,
                                  !.outcome = [status |-> density.t]]
                   ELSE [@ EXCEPT !.pc = "energy", !.locals.density = density,
                                  !.locals.diameter_m =
                                      ScenarioDiameterM(calls[r].asteroid)]]
       IN Step(ScenarioDensity(calls[r].asteroid, MATERIAL_DENSITIES))
    /\ UNCHANGED <<callers, calculation_metadata, MATERIAL_DENSITIES>>

\* lines 44-45: kinetic_energy_joules and energy_megatons
ResolveEnergy(r) ==
    /\ calls[r].pc = "energy"
    /\ calls' = [calls EXCEPT ![r] =
            [@ EXCEPT !.pc = "effects",
                      !.locals.energy_megatons =
                          EnergyMegatons(calls[r].locals.mass_kg,
                                         calls[r].locals.impact_velocity)]]
    /\ UNCHANGED <<callers, calculation_metadata, MATERIAL_DENSITIES>>

\* lines 48-57: results = self._calculate_comprehensive_effects(...); an
\* exception ends the call.
ComputeEffects(r) ==
    /\ calls[r].pc = "effects"
    /\ LET Step(results) ==
               calls' = [calls EXCEPT ![r] =
                   IF results.status # "ok"
                   THEN [@ EXCEPT !.pc = "done", !.outcome = results]
                   ELSE [@ EXCEPT !.pc = "metadata", !.results = results]]
       IN Step(ScenarioOutcome(calls[r].locals, calls[r].parameters))
    /\ UNCHANGED <<callers, calculation_metadata, MATERIAL_DENSITIES>>

\* lines 60-67: self.calculation_metadata = {...}
StoreMetadata(r) ==
    /\ calls[r].pc = "metadata"
    /\ calculation_metadata' = ScenarioMetadata(calls[r].asteroid, calls[r].locals)
    /\ calls' = [calls EXCEPT ![r].pc = "return"]
    /\ UNCHANGED <<callers, MATERIAL_DENSITIES>>

\* lines 69-77: return ImpactResults(...)
ReturnResults(r) ==
    /\ calls[r].pc = "return"
    /\ calls' = [calls EXCEPT ![r] =
            [@ EXCEPT !.pc = "done", !.outcome = calls[r].results]]
    /\ UNCHANGED <<callers, calculation_metadata, MATERIAL_DENSITIES>>

\* Requests that call the shared engine without synchronization.
InitConcurrent ==
    /\ pc = "concurrent"
    /\ InitEngine
    /\ kwargs = NoKwargs
    /\ asteroid = NoAsteroid
    /\ parameters = NoParameters
    /\ request = NoRequest
    /\ response = NoResponse
    /\ db = EmptyStore
    /\ nasa = NoSource
    /\ calls \in [Requests -> {NewCall(i[1], i[2]) : i \in ConcurrentInputs}]

NextConcurrent ==
    \E r \in Requests :
        \/ ResolveVelocity(r)
        \/ ResolveMass(r)
        \/ ResolveDensity(r)
        \/ ResolveEnergy(r)
        \/ ComputeEffects(r)
        \/ StoreMetadata(r)
        \/ ReturnResults(r)

SpecConcurrent == InitConcurrent /\ [][NextConcurrent]_vars

\* Repeated requests to the engine singleton.
Init ==
    /\ InitCommon
    /\ kwargs = NoKwargs
    /\ asteroid \in RepeatAsteroids
    /\ parameters \in RepeatParameters

Next == CalculateImpactScenario \/ NextRequest

Spec == Init /\ [][Next]_vars

\* One call of calculate_impact_scenario for every input.
InitScenario ==
    /\ InitCommon
    /\ kwargs = NoKwargs
    /\ asteroid \in AsteroidInputs
    /\ parameters \in ParameterInputs

NextScenario == CalculateImpactScenario

SpecScenario == InitScenario /\ [][NextScenario]_vars

\* One direct call of the effects calculator for every input.
InitEffects ==
    /\ InitCommon
    /\ kwargs \in EffectsInputs
    /\ asteroid = Asteroid(F(1, 0), None, "rocky", FALSE, None)
    /\ parameters = ImpactParameters(None, F(45, 0), F(2700, 0))

NextEffects == ComprehensiveEffectsCall

SpecEffects == InitEffects /\ [][NextEffects]_vars

\* One request posted to /api/simulation/run.
InitEndpoint ==
    /\ pc = "received"
    /\ InitEngine
    /\ kwargs = NoKwargs
    /\ asteroid = NoAsteroid
    /\ parameters = NoParameters
    /\ request \in RequestInputs
    /\ response = NoResponse
    /\ db \in StoreInputs
    /\ nasa \in SourceInputs
    /\ calls = NoCalls

NextEndpoint ==
    \/ ValidateRequest
    \/ GetAsteroidData
    \/ CalculateImpactScenario
    \/ SaveSimulation

SpecEndpoint == InitEndpoint /\ [][NextEndpoint]_vars

\* _calculate_asteroid_mass applied to two asteroids.
AsteroidMassCall ==
    /\ pc = "ready"
    /\ kwargs \in MassCalls
    /\ outcome' = [status |-> "ok",
                   m1 |-> CalculateAsteroidMass(kwargs.a1, MATERIAL_DENSITIES),
                   m2 |-> CalculateAsteroidMass(kwargs.a2, MATERIAL_DENSITIES)]
    /\ pc' = "done"
    /\ UNCHANGED <<asteroid, parameters, kwargs, locals, calculation_metadata,
                   MATERIAL_DENSITIES, history, service>>

\* Every pair of asteroids.
InitMass ==
    /\ InitCommon
    /\ kwargs \in MassCalls
    /\ asteroid = Asteroid(F(1, 0), None, "rocky", FALSE, None)
    /\ parameters = ImpactParameters(None, F(45, 0), F(2700, 0))

NextMass == AsteroidMassCall

SpecMass == InitMass /\ [][NextMass]_vars

\* A classifier applied to two values.
SeverityCall ==
    /\ pc = "ready"
    /\ kwargs \in SeverityCalls
    /\ outcome' = [status |-> "ok",
                   s1 |-> GetSeverity(kwargs.classifier, kwargs.v1),
                   s2 |-> GetSeverity(kwargs.classifier, kwargs.v2)]
    /\ pc' = "done"
    /\ UNCHANGED <<asteroid, parameters, kwargs, locals, calculation_metadata,
                   MATERIAL_DENSITIES, history, service>>

\* Every classifier on every pair of values.
InitSeverity ==
    /\ InitCommon
    /\ kwargs \in SeverityCalls
    /\ asteroid = Asteroid(F(1, 0), None, "rocky", FALSE, None)
    /\ parameters = ImpactParameters(None, F(45, 0), F(2700, 0))

NextSeverity == SeverityCall

SpecSeverity == InitSeverity /\ [][NextSeverity]_vars

\* The service before search_asteroids is called.
InitSearch ==
    /\ pc = "idle"
    /\ InitEngine
    /\ kwargs = NoKwargs
    /\ asteroid = NoAsteroid
    /\ parameters = NoParameters
    /\ request = NoRequest
    /\ response = NoResponse
    /\ db = EmptyStore
    /\ calls = NoCalls
    /\ nasa = NoSource

NextSearch == SearchAsteroids \/ SearchPage

\* The event loop resumes the coroutine whenever its request has been
\* answered (or has failed, after the 30 s timeout at the latest).
SpecSearch == InitSearch /\ [][NextSearch]_vars /\ WF_vars(SearchPage)

\* GET /api/neo/asteroids with every query on every cache and source.
InitListing ==
    /\ pc = "listing"
    /\ InitEngine
    /\ kwargs = NoKwargs
    /\ asteroid = NoAsteroid
    /\ parameters = NoParameters
    /\ request \in ListingRequests
    /\ response = NoResponse
    /\ db \in ListingStores
    /\ calls = NoCalls
    /\ nasa \in {s \in BrowseSources : s.fail_at # 0 /\ s.pages # 1}

NextListing == CheckCache \/ SearchPage \/ CacheAsteroids

SpecListing == InitListing /\ [][NextListing]_vars

\* Every list of up to MaxIds ids posted to /compare.
InitCompare ==
    /\ pc = "compare"
    /\ InitEngine
    /\ kwargs = NoKwargs
    /\ asteroid = NoAsteroid
    /\ parameters = NoParameters
    /\ request \in {[simulation_ids |-> ids] : ids \in IdLists(MaxIds)}
    /\ response = NoResponse
    /\ db = SimulationStore
    /\ nasa = NoSource
    /\ calls = NoCalls

NextCompare == CompareSimulations

SpecCompare == InitCompare /\ [][NextCompare]_vars

\* Update requests, one after the other, on the two stored simulations.
InitUpdate ==
    /\ pc = "update"
    /\ InitEngine
    /\ kwargs = NoKwargs
    /\ asteroid = NoAsteroid
    /\ parameters = NoParameters
    /\ request = NoRequest
    /\ response = NoResponse
    /\ db = SimulationStore
    /\ nasa = NoSource
    /\ calls = NoCalls

NextUpdate == UpdateSimulation

SpecUpdate == InitUpdate /\ [][NextUpdate]_vars

\* Lookups and syncs, one after the other, on an empty cache.
InitCache ==
    /\ pc = "cache"
    /\ InitEngine
    /\ kwargs = NoKwargs
    /\ asteroid = NoAsteroid
    /\ parameters = NoParameters
    /\ request = NoRequest
    /\ response = NoResponse
    /\ db = EmptyStore
    /\ nasa \in CacheSources
    /\ calls = NoCalls

NextCache == Lookup \/ SyncNasaData

SpecCache == InitCache /\ [][NextCache]_vars

\* MaxRequests concurrent requests on the singleton service.
InitSession ==
    /\ pc = "sessions"
    /\ InitEngine
    /\ kwargs = NoKwargs
    /\ asteroid = NoAsteroid
    /\ parameters = NoParameters
    /\ request = NoRequest
    /\ response = NoResponse
    /\ db = EmptyStore
    /\ nasa = NewService
    /\ calls = [r \in Requests |-> NewRequest]

NextSession ==
    \E r \in Requests :
        \/ AEnter(r)
        \/ MakeRequest(r)
        \/ ReceiveResponse(r)
        \/ AExit(r)

SpecSession == InitSession /\ [][NextSession]_vars

---------------------------------------------------------------------------
(* Claims                                                                  *)

\* C1 (purity): any two calls of calculate_impact_scenario on the shared
\* engine that were given identical asteroid and parameters returned
\* identical results (every metric and the timeline) or raised alike,
\* whatever calls came before or between them.
C1_Purity ==
    \A i, j \in 1..Len(history) :
        (history[i][1] = history[j][1] /\ history[i][2] = history[j][2])
            => history[i][3] = history[j][3]

\* Two calls with the same inputs, a call with other inputs between them, all
\* returning results.
C1_Witness ==
    /\ Len(history) = 3
    /\ history[1][1] = history[3][1] /\ history[1][2] = history[3][2]
    /\ history[2][1] # history[1][1]
    /\ history[1][3].status = "ok" /\ history[3][3].status = "ok"
    /\ history[1][3] # history[2][3]

\* The velocity the spec's resolver returns: override if present and > 0,
\* else sqrt(v_orbital^2 + 11.2^2) if the axis is present and > 0, else 20.0.
ClaimedVelocity(ast, params) ==
    LET v == params.impact_velocity_kms
        a == ast.orbital_elements.semi_major_axis_au
    IN IF IsReal(v) /\ v.m > 0 THEN v
       ELSE IF ast.orbital_elements.present /\ IsReal(a) /\ a.m > 0
       THEN LET v_orbital ==
                    FDiv(FSqrt(FDiv(F(1327, 17), FMul(a, F(1496, 8)))), F(1000, 0))
            IN FSqrt(FAdd(FMul(v_orbital, v_orbital), FMul(F(112, -1), F(112, -1))))
       ELSE F(20, 0)

\* C2 (velocity fallback order): the resolved velocity is the override when
\* one is present and > 0, else the orbital-derived velocity when the axis is
\* present and > 0, else exactly 20.0.
C2_VelocityFallbackOrder ==
    pc = "done" => locals.impact_velocity = ClaimedVelocity(asteroid, parameters)

\* C3 (no error path): for every override and every axis (absent, zero,
\* negative or positive) the velocity resolver returns a positive real.
C3_VelocityPositive ==
    pc = "done" => IsReal(locals.impact_velocity) /\ locals.impact_velocity.m > 0

\* The density the spec's resolver uses: override if present and > 0, else the
\* table value of the composition class, else rocky's 2600.
ClaimedDensity(ast) ==
    IF IsReal(ast.density_kg_m3) /\ ast.density_kg_m3.m > 0 THEN ast.density_kg_m3
    ELSE CASE ast.composition_type = "rocky" -> F(2600, 0)
           [] ast.composition_type = "iron" -> F(7800, 0)
           [] ast.composition_type = "icy" -> F(1000, 0)
           [] ast.composition_type = "stony" -> F(3500, 0)
           [] OTHER -> F(2600, 0)

\* C4 (effective density): once the velocity is resolved, the density handed
\* to the effects calculator is the claimed effective density, also for an
\* unrecognized composition class, and it is the density used for the mass.
C4_EffectiveDensity ==
    (pc = "done" /\ ~Raised(locals.impact_velocity))
        => /\ locals.density = ClaimedDensity(asteroid)
           /\ MassDensity(asteroid, MATERIAL_DENSITIES) = locals.density

\* The diameter the spec's resolver uses: 1.0 km if absent or non-positive.
ClaimedDiameterKm(ast) ==
    IF IsReal(ast.estimated_diameter_km) /\ ast.estimated_diameter_km.m > 0
    THEN ast.estimated_diameter_km
    ELSE F(1, 0)

\* C5 (effective diameter): the diameter handed to the effects calculator and
\* the diameter of the mass computation are the given diameter, or 1.0 km
\* when it is absent, zero or negative.
C5_EffectiveDiameter ==
    (pc = "done" /\ locals.diameter_m # Unset)
        => /\ locals.diameter_m = FMul(ClaimedDiameterKm(asteroid), F(1000, 0))
           /\ locals.mass_kg =
                CalculateAsteroidMass(
                    [asteroid EXCEPT !.estimated_diameter_km = ClaimedDiameterKm(asteroid)],
                    MATERIAL_DENSITIES)

\* C6 (positive mass and energy): every computed mass_kg and energy_megatons
\* is strictly positive.
C6_MassEnergyPositive ==
    pc = "done"
        => /\ locals.mass_kg # Unset => locals.mass_kg.m > 0
           /\ locals.energy_megatons # Unset => locals.energy_megatons.m > 0

\* C7 (no error from the effects calculator): every direct call, also with
\* negative or zero energy or a non-positive target density, returns the
\* complete dictionary.
C7_EffectsTotal ==
    pc = "done" => outcome.status = "ok"

\* C8 (seismic guard): for energy_mt <= 0 the seismic magnitude computed by
\* the effects calculator is exactly 0, no exception and no other value.
C8_SeismicGuard ==
    (pc = "done" /\ kwargs.energy_megatons.m <= 0 /\ locals.seismic_magnitude # Unset)
        => locals.seismic_magnitude = Zero

\* energy_mt = 0 exactly: the call returns and reports magnitude 0.
C8_Witness ==
    /\ pc = "done"
    /\ kwargs.energy_megatons = Zero
    /\ locals.seismic_magnitude = Zero
    /\ outcome.status = "ok"
    /\ outcome.environmental.seismicMagnitude.value = Zero

\* C9 (clamping): every computed seismic magnitude lies in [0, 10] and every
\* computed peak temperature is at most 100000.
C9_Clamping ==
    (pc = "done" /\ locals.seismic_magnitude # Unset)
        => /\ IsReal(locals.seismic_magnitude)
           /\ FLe(Zero, locals.seismic_magnitude)
           /\ FLe(locals.seismic_magnitude, F(10, 0))
           /\ FLe(locals.peak_temperature, F(100000, 0))

\* An energy whose unclamped magnitude exceeds 10 and a velocity whose
\* unclamped temperature exceeds 100000: both sit on the clamp.
C9_Witness ==
    /\ pc = "done"
    /\ FGt(kwargs.energy_megatons, F(1, 10))
    /\ FGt(kwargs.velocity_kms, F(45, 0))
    /\ locals.seismic_magnitude = F(10, 0)
    /\ locals.peak_temperature = F(100000, 0)
    /\ outcome.status = "ok"

\* min(100, value/ceiling*100) as the spec states it.
ClaimedProgress(value, ceiling) ==
    LET score == FMul(FDiv(value, ceiling), F(100, 0))
    IN IF FLt(score, F(100, 0)) THEN score ELSE F(100, 0)

\* The raw value and the ceiling of each metric of a returned result.
ClaimedCeilings(L) ==
    <<  <<"immediate", "craterDiameter", FDiv(L.crater_diameter_m, F(1000, 0)), F(50, 0)>>,
        <<"immediate", "temperature", L.peak_temperature, F(100000, 0)>>,
        <<"immediate", "fireballRadius", L.fireball_radius_km, F(200, 0)>>,
        <<"environmental", "shockwaveRadius", L.shockwave_radius_km, F(3000, 0)>>,
        <<"environmental", "debrisFieldRadius", L.debris_radius_km, F(8000, 0)>>,
        <<"environmental", "seismicMagnitude", L.seismic_magnitude, F(10, 0)>>,
        <<"environmental", "atmosphericDust", FDiv(L.atmospheric_dust_tons, F(1, 9)), F(100, 0)>>,
        <<"human_impact", "casualtiesImmediate", L.casualties, F(10000000, 0)>>,
        <<"human_impact", "infrastructureDamage", L.infrastructure_damage_km, F(2000, 0)>>,
        <<"human_impact", "economicLoss", L.economic_loss_billion, F(10000, 0)>>,
        <<"human_impact", "refugeePopulation", L.refugees, F(50000000, 0)>>  >>

\* C10 (progress): every metric of a returned result has progress
\* min(100, value/ceiling*100) for its ceiling, and the score is in [0, 100].
C10_ProgressRange ==
    (pc = "done" /\ outcome.status = "ok")
        => LET L == EffectLocals(EffectsKwargs(locals, parameters))
               rows == ClaimedCeilings(L)
           IN /\ outcome.immediate.energy.progress =
                    ClaimedProgress(locals.energy_megatons, F(1000000, 0))
              /\ FLe(Zero, outcome.immediate.energy.progress)
              /\ \A k \in 1..Len(rows) :
                    LET metric == outcome[rows[k][1]][rows[k][2]]
                    IN /\ metric.progress = ClaimedProgress(rows[k][3], rows[k][4])
                       /\ FLe(Zero, metric.progress)
                       /\ FLe(metric.progress, F(100, 0))

\* The order minor < moderate < severe < catastrophic.
SeverityRank(label) ==
    CASE label = "minor" -> 0
      [] label = "moderate" -> 1
      [] label = "severe" -> 2
      [] label = "catastrophic" -> 3
      [] OTHER -> -1

\* C11 (severity monotonicity): for each of the twelve classifiers, v1 <= v2
\* gives severity(v1) <= severity(v2) in the order minor < moderate < severe
\* < catastrophic, and each result is one of the four labels.
C11_SeverityMonotone ==
    pc = "done"
        => /\ SeverityRank(outcome.s1) >= 0
           /\ SeverityRank(outcome.s2) >= 0
           /\ FLe(kwargs.v1, kwargs.v2)
                => SeverityRank(outcome.s1) <= SeverityRank(outcome.s2)

\* The seismic classifier on a value below its bands and one above them.
C11_Witness ==
    /\ pc = "done"
    /\ kwargs.classifier = "seismic"
    /\ FLt(kwargs.v1, kwargs.v2)
    /\ outcome.s1 = "moderate"
    /\ outcome.s2 = "catastrophic"

\* The band of v between the thresholds, a value on a threshold falling in
\* the lower band.
ClaimedBand(v, catastrophic, severe, moderate) ==
    IF FGt(v, catastrophic) THEN "catastrophic"
    ELSE IF FGt(v, severe) /\ FLe(v, catastrophic) THEN "severe"
    ELSE IF FGt(v, moderate) /\ FLe(v, severe) THEN "moderate"
    ELSE "minor"

\* C12 (strict thresholds): the crater severity is catastrophic iff the
\* diameter is > 20 km, severe iff in (10, 20], moderate iff in (2, 10], minor
\* iff <= 2; the energy severity likewise with 100000, 10000 and 1000 MT.
C12_StrictThresholds ==
    pc = "done"
        => /\ kwargs.classifier = "crater"
                => /\ outcome.s1 = ClaimedBand(kwargs.v1, F(20, 0), F(10, 0), F(2, 0))
                   /\ (outcome.s1 = "minor") <=> FLe(kwargs.v1, F(2, 0))
           /\ kwargs.classifier = "energy"
                => /\ outcome.s1 =
                        ClaimedBand(kwargs.v1, F(100000, 0), F(10000, 0), F(1000, 0))
                   /\ (outcome.s1 = "minor") <=> FLe(kwargs.v1, F(1000, 0))

\* A crater of exactly 20 km is severe and one of exactly 2 km is minor.
C12_Witness ==
    /\ pc = "done"
    /\ kwargs.classifier = "crater"
    /\ kwargs.v1 = F(20, 0) /\ outcome.s1 = "severe"
    /\ kwargs.v2 = F(2, 0) /\ outcome.s2 = "minor"

\* The two asteroids of a mass call differ in the diameter only, a1 smaller.
LargerDiameter ==
    /\ kwargs.a1.density_kg_m3 = kwargs.a2.density_kg_m3
    /\ FLt(kwargs.a1.estimated_diameter_km, kwargs.a2.estimated_diameter_km)
\* The two asteroids of a mass call differ in the density only, a1 lighter.
LargerDensity ==
    /\ kwargs.a1.estimated_diameter_km = kwargs.a2.estimated_diameter_km
    /\ FLt(kwargs.a1.density_kg_m3, kwargs.a2.density_kg_m3)

\* C13 (mass monotonicity) as stated: with density fixed a strictly larger
\* positive diameter gives a strictly larger mass, and with diameter fixed a
\* strictly larger positive density gives a strictly larger mass.
C13_MassStrictlyMonotone ==
    (pc = "done" /\ (LargerDiameter \/ LargerDensity))
        => FLt(outcome.m1, outcome.m2)

\* C13 as amended: the mass of the larger diameter, or of the larger
\* density, is never smaller than the other mass.
C13_MassMonotone ==
    (pc = "done" /\ (LargerDiameter \/ LargerDensity))
        => FLe(outcome.m1, outcome.m2)

\* 1.0 km against 10 km at 2600 kg/m3: the larger body is heavier.
C13_Witness ==
    /\ pc = "done"
    /\ LargerDiameter
    /\ kwargs.a1.estimated_diameter_km = F(1, 0)
    /\ kwargs.a2.estimated_diameter_km = F(10, 0)
    /\ kwargs.a1.density_kg_m3 = F(2600, 0)
    /\ outcome.m1 = F(1361, 9)
    /\ FLt(outcome.m1, outcome.m2)

\* a < b for two computed quantities: both are real numbers.
StrictlySmaller(a, b) == IsReal(a) /\ IsReal(b) /\ FLt(a, b)

\* C14 (angle sensitivity): for identical other inputs the shockwave radius,
\* the debris field radius and the crater diameter computed at 15 degrees
\* are each strictly smaller than the same quantity computed at 90 degrees.
C14_AngleSensitivity ==
    (pc = "done" /\ kwargs.impact_angle = F(15, 0))
        => LET Smaller(at90) ==
                   /\ StrictlySmaller(locals.shockwave_radius_km, at90.shockwave_radius_km)
                   /\ StrictlySmaller(locals.debris_radius_km, at90.debris_radius_km)
                   /\ StrictlySmaller(locals.crater_diameter_m, at90.crater_diameter_m)
           IN Smaller(EffectLocals([kwargs EXCEPT !.impact_angle = F(90, 0)]))

\* C15 (upstream validation): every call of calculate_impact_scenario made by
\* the endpoint has an asteroid of diameter > 0 and an impact angle within
\* [15, 90]; anything else is rejected before the call.
C15_UpstreamValidation ==
    \A i \in 1..Len(history) :
        /\ IsReal(history[i][1].estimated_diameter_km)
        /\ history[i][1].estimated_diameter_km.m > 0
        /\ FGe(history[i][2].impact_angle_deg, F(15, 0))
        /\ FLe(history[i][2].impact_angle_deg, F(90, 0))

\* The identifier has no cached record and the NASA source yields none: the
\* request fails, the key is missing or the record cannot be parsed.
DataUnavailable ==
    /\ \A a \in db.asteroids : a.nasa_id # request.parameters.asteroid_nasa_id
    /\ \/ nasa.status # "ok"
       \/ ~nasa.neo_data.has_id
       \/ ~nasa.neo_data.well_formed

\* C16 (data unavailable): when the asteroid is neither cached nor obtainable
\* from the NASA source, run_enhanced_simulation answers 404, the engine is
\* never called and no simulation record is inserted.
C16_DataUnavailable ==
    [][(pc = "handler" /\ DataUnavailable)
        => /\ pc' = "responded"
           /\ response'.status_code = 404
           /\ history' = <<>>
           /\ db' = db
           /\ db'.simulations = <<>>]_vars

\* A failed NASA request on an empty cache, answered with 404.
C16_Witness ==
    /\ pc = "responded"
    /\ db.asteroids = {}
    /\ nasa.status = "request_failed"
    /\ response.status_code = 404
    /\ history = <<>>
    /\ db.simulations = <<>>

\* C17 (no state changed): a call of calculate_impact_scenario leaves every
\* field of the shared engine instance and both input objects unchanged.
C17_NoStateChange ==
    [][(pc = "ready" /\ pc' = "done")
        => /\ calculation_metadata' = calculation_metadata
           /\ MATERIAL_DENSITIES' = MATERIAL_DENSITIES
           /\ asteroid' = asteroid
           /\ parameters' = parameters]_vars

\* C18 (concurrent invocations): under every interleaving of the requests'
\* calls on the shared engine, each returned result equals what the same
\* inputs produce when run alone, and MATERIAL_DENSITIES is never modified.
C18_ConcurrentCalls ==
    /\ MATERIAL_DENSITIES = MaterialDensityTable
    /\ \A r \in DOMAIN calls :
          calls[r].pc = "done" => calls[r].outcome = calls[r].alone

\* Two requests with different inputs have both returned results, the
\* metadata of the first being overwritten by the second.
C18_Witness ==
    /\ pc = "concurrent"
    /\ \A r \in DOMAIN calls : calls[r].pc = "done" /\ calls[r].outcome.status = "ok"
    /\ calls[1].asteroid # calls[2].asteroid
    /\ calls[1].outcome # calls[2].outcome
    /\ calculation_metadata.impact_velocity_used = calls[1].locals.impact_velocity
    /\ calculation_metadata.impact_velocity_used # calls[2].locals.impact_velocity

\* The time labels of t0..t8 for a shockwave radius, as the spec lists them.
ClaimedTimeLabels(shockwave_km) ==
    [t0 |-> <<"0 seconds">>, t1 |-> <<"1 second">>, t2 |-> <<"10 seconds">>,
     t3 |-> <<FFormat(FDiv(shockwave_km, F(34, -2)), 0), "seconds">>,
     t4 |-> <<"5 minutes">>, t5 |-> <<"30 minutes">>, t6 |-> <<"2 hours">>,
     t7 |-> <<"24 hours">>, t8 |-> <<"1 week">>]

\* C19 (complete results): a returned ImpactResults holds exactly the four
\* immediate, four environmental and four human_impact metrics and a timeline
\* of exactly t0..t8 with the fixed time labels (t3 being shockwave_km/0.34
\* seconds), the timeline entries carrying no severity.
C19_CompleteResults ==
    (pc = "done" /\ outcome.status = "ok")
        => /\ DOMAIN outcome.immediate =
                {"craterDiameter", "energy", "temperature", "fireballRadius"}
           /\ DOMAIN outcome.environmental =
                {"shockwaveRadius", "debrisFieldRadius", "seismicMagnitude",
                 "atmosphericDust"}
           /\ DOMAIN outcome.human_impact =
                {"casualtiesImmediate", "infrastructureDamage", "economicLoss",
                 "refugeePopulation"}
           /\ DOMAIN outcome.timeline =
                {"t0", "t1", "t2", "t3", "t4", "t5", "t6", "t7", "t8"}
           /\ \A t \in DOMAIN outcome.timeline :
                /\ DOMAIN outcome.timeline[t] = {"time", "event"}
                /\ t \in DOMAIN ClaimedTimeLabels(Zero)
                /\ outcome.timeline[t].time =
                      ClaimedTimeLabels(
                          CalculateShockwaveRadius(locals.energy_megatons,
                                                   parameters.impact_angle_deg))[t]

\* A 10 km body at 90 degrees: the shockwave arrival label is computed.
C19_Witness ==
    /\ pc = "done"
    /\ outcome.status = "ok"
    /\ asteroid.estimated_diameter_km = F(10, 0)
    /\ parameters.impact_angle_deg = F(90, 0)
    /\ FGt(outcome.timeline.t3.time[1], F(100, 0))
    /\ outcome.timeline.t8.time = <<"1 week">>

\* A second invocation of the effects calculator for a diameter: energy,
\* velocity, densities and angle at fixed values of their own.
ReferenceInvocation(diameter_m) ==
    CalculateComprehensiveEffects(
        [energy_megatons |-> F(1, 0), mass_kg |-> F(1361, 9),
         velocity_kms |-> F(20, 0), diameter_m |-> diameter_m,
         density |-> F(2600, 0), impact_angle |-> F(45, 0),
         target_density |-> F(2700, 0), location |-> "Tokyo"])
ReferenceDust ==
    [d \in {F(1000, 0), F(-1000, 0), F(10000, 0)} |->
        ReferenceInvocation(d).environmental.atmosphericDust]

\* C20 (dust depends only on the diameter): an invocation and a second one
\* of the same diameter_m that differs in target density, asteroid density,
\* velocity, angle or energy give the same atmosphericDust value, severity
\* and progress.
C20_DustByDiameter ==
    (pc = "done" /\ outcome.status = "ok")
        => LET Same(dust, other) ==
                   /\ dust.value = other.value
                   /\ dust.severity = other.severity
                   /\ dust.progress = other.progress
           IN Same(outcome.environmental.atmosphericDust,
                   ReferenceDust[locals.diameter_m])

\* A 10 km body of density 3000 at 90 degrees: energy, velocity, density and
\* angle all differ from the second invocation, the dust does not.
C20_Witness ==
    /\ pc = "done"
    /\ outcome.status = "ok"
    /\ locals.diameter_m = F(10000, 0)
    /\ locals.density = F(3000, 0)
    /\ parameters.impact_angle_deg = F(90, 0)
    /\ locals.impact_velocity # F(20, 0)
    /\ locals.energy_megatons # F(1, 0)
    /\ outcome.environmental.atmosphericDust.severity = "catastrophic"
    /\ outcome.environmental.atmosphericDust = ReferenceDust[F(10000, 0)]
    /\ outcome.environmental.shockwaveRadius
         # ReferenceInvocation(F(10000, 0)).environmental.shockwaveRadius

\* The asteroid of the reference scenario: 1.0 km, rocky, density taken from
\* the table, no orbital data.
ReferenceAsteroid ==
    /\ asteroid.estimated_diameter_km = F(1, 0)
    /\ ~Truthy(asteroid.density_kg_m3)
    /\ asteroid.composition_type = "rocky"
    /\ ~asteroid.orbital_elements.present

\* C21 (reference scenario, resolvers): for diameter 1.0 km, rocky (2600),
\* no orbital data and no explicit velocity the resolved velocity is exactly
\* 20.0 km/s and the mass is 1.361e12 kg to within one part in a thousand.
C21_ReferenceResolvers ==
    (pc = "done" /\ ReferenceAsteroid /\ ~Truthy(parameters.impact_velocity_kms))
        => /\ locals.impact_velocity = F(20, 0)
           /\ FGe(locals.mass_kg, F(1360, 9))
           /\ FLe(locals.mass_kg, F(1362, 9))

C21_Witness ==
    /\ pc = "done"
    /\ ReferenceAsteroid
    /\ parameters = ImpactParameters(None, F(45, 0), F(2700, 0))
    /\ outcome.status = "ok"
    /\ locals.impact_velocity = F(20, 0)
    /\ locals.mass_kg = F(1361, 9)
    /\ locals.density = F(2600, 0)

\* The reference scenario of the effects part: the reference asteroid with no
\* explicit velocity (20.0 km/s), angle 45 degrees, target density 2700,
\* after the call has returned.
ReferenceScenario ==
    /\ pc = "done"
    /\ outcome.status = "ok"
    /\ ReferenceAsteroid
    /\ ~Truthy(parameters.impact_velocity_kms)
    /\ parameters.impact_angle_deg = F(45, 0)
    /\ parameters.target_density_kg_m3 = F(2700, 0)

\* The four immediate metrics that are classified "minor".
MinorImmediate ==
    {k \in {"craterDiameter", "energy", "temperature", "fireballRadius"} :
        outcome.immediate[k].severity = "minor"}

\* C22 as stated (reference scenario, effects): the energy has the order of
\* magnitude of 0.0651 megatons, the crater diameter is tens to low hundreds
\* of meters, and most of the four immediate metrics are "minor".
C22_ReferenceEffectsClaimed ==
    ReferenceScenario
        => /\ FGe(locals.energy_megatons, F(1, -2))
           /\ FLt(locals.energy_megatons, F(1, -1))
           /\ FGe(outcome.immediate.craterDiameter.value, F(1, -2))
           /\ FLt(outcome.immediate.craterDiameter.value, F(1, 0))
           /\ Cardinality(MinorImmediate) >= 3

\* C22 (reference scenario, effects, amended): the energy is about 6.51e4
\* megatons (same order of magnitude), the crater diameter is on the order
\* of tens of kilometres, and none of the four immediate metrics is
\* classified "minor".
C22_ReferenceEffects ==
    ReferenceScenario
        => /\ FGe(locals.energy_megatons, F(1, 4))
           /\ FLt(locals.energy_megatons, F(1, 5))
           /\ outcome.immediate.craterDiameter.unit = "km"
           /\ FGe(outcome.immediate.craterDiameter.value, F(1, 1))
           /\ FLt(outcome.immediate.craterDiameter.value, F(1, 2))
           /\ MinorImmediate = {}

C22_Witness ==
    /\ ReferenceScenario
    /\ locals.impact_velocity = F(20, 0)
    /\ locals.density = F(2600, 0)
    /\ locals.energy_megatons = F(6506, 1)
    /\ outcome.immediate.craterDiameter.value = F(2040, -2)
    /\ outcome.immediate.craterDiameter.severity = "catastrophic"
    /\ outcome.immediate.energy.severity = "severe"

\* An asteroid of a listing satisfies the filters of the query: its diameter
\* is not below the minimum nor above the maximum, and its hazard flag is
\* the one asked for.
SatisfiesQuery(a, query) ==
    /\ Truthy(query.diameter_min_km)
         => /\ IsReal(a.estimated_diameter_km)
            /\ FGe(a.estimated_diameter_km, query.diameter_min_km)
    /\ Truthy(query.diameter_max_km)
         => /\ IsReal(a.estimated_diameter_km)
            /\ FLe(a.estimated_diameter_km, query.diameter_max_km)
    /\ ~IsNone(query.potentially_hazardous)
         => Bool(a.potentially_hazardous) = query.potentially_hazardous

\* C23 (listing with filtering): every asteroid of a GET /api/neo/asteroids
\* response satisfies the diameter_min_km, diameter_max_km and
\* potentially_hazardous filters of the query, from the cache as from the
\* NASA source, and the response holds at most `limit` asteroids.
C23_ListingFiltered ==
    (pc = "responded" /\ response.status_code = 200)
        => /\ Len(response.asteroids) <= request.limit
           /\ \A i \in 1..Len(response.asteroids) :
                  SatisfiesQuery(response.asteroids[i], request)

\* The ids of a request that are invalid or name no simulation, by position.
ProblemIds ==
    {i \in 1..Len(request.simulation_ids) :
        \/ ~ObjectIdIsValid(request.simulation_ids[i])
        \/ FindSimulation(db, ObjectId(request.simulation_ids[i])) = NoDocument}
FirstProblem == CHOOSE i \in ProblemIds : \A j \in ProblemIds : i <= j

\* C24 (comparison is all-or-nothing): a comparison is returned only for 2
\* to 5 ids that are all valid and all stored, with one entry per id in
\* request order; fewer than 2 or more than 5 ids give 400, and otherwise
\* the first invalid id gives 400 and the first missing id 404.
C24_CompareAllOrNothing ==
    (pc = "responded")
        => LET ids == request.simulation_ids
           IN /\ response.status_code = 200
                    => /\ Len(ids) >= 2 /\ Len(ids) <= 5
                       /\ ProblemIds = {}
                       /\ Len(response.simulations) = Len(ids)
                       /\ \A i \in 1..Len(ids) : response.simulations[i].id = ids[i]
              /\ (Len(ids) < 2 \/ Len(ids) > 5) => response.status_code = 400
              /\ (Len(ids) >= 2 /\ Len(ids) <= 5 /\ ProblemIds # {})
                    => response.status_code =
                          IF ObjectIdIsValid(ids[FirstProblem]) THEN 404 ELSE 400

\* The results of a record are complete: three groups of four metrics and
\* the nine timeline entries.
CompleteResults(results) ==
    /\ results.status = "ok"
    /\ DOMAIN results.immediate
         = {"craterDiameter", "energy", "temperature", "fireballRadius"}
    /\ DOMAIN results.environmental
         = {"shockwaveRadius", "debrisFieldRadius", "seismicMagnitude",
            "atmosphericDust"}
    /\ DOMAIN results.human_impact
         = {"casualtiesImmediate", "infrastructureDamage", "economicLoss",
            "refugeePopulation"}
    /\ DOMAIN results.timeline
         = {"t0", "t1", "t2", "t3", "t4", "t5", "t6", "t7", "t8"}

\* C25 (a record exactly on success): run_enhanced_simulation inserts a
\* simulation record exactly when the asteroid lookup and the engine both
\* succeeded, one record carrying the complete results; when the lookup
\* yields nothing or the engine raises, it answers 404 or 500 and the stored
\* simulations are unchanged.
C25_RecordOnSuccess ==
    /\ pc # "responded" => db.simulations = <<>>
    /\ (pc = "responded" /\ response.status_code # 422)
         => IF asteroid # NoAsteroid /\ outcome.status = "ok"
            THEN /\ response.status_code = 200
                 /\ Len(db.simulations) = 1
                 /\ db.simulations[1].results = outcome
                 /\ db.simulations[1].asteroid_data = asteroid
                 /\ CompleteResults(db.simulations[1].results)
            ELSE /\ response.status_code \in {404, 500}
                 /\ (asteroid = NoAsteroid /\ response.status_code = 404)
                       => history = <<>>
                 /\ db.simulations = <<>>

\* The engine raised ZeroDivisionError for the fetched asteroid: 500 and no
\* record.
C25_Witness ==
    /\ pc = "responded"
    /\ asteroid # NoAsteroid
    /\ outcome.status = "ZeroDivisionError"
    /\ response.status_code = 500
    /\ db.simulations = <<>>
    /\ Len(history) = 1

\* The lookups among the requests made so far, by position.
Lookups == {i \in 1..Len(history) : history[i].handler # "sync_nasa_data"}

\* C26 (cache-first lookup): a lookup of an identifier that has a cached
\* record never contacts the NASA source; after a miss with a successful
\* fetch the record is in the cache under its nasa_id and every later lookup
\* of the identifier is served from the cache; the cache never holds two
\* records of one nasa_id.
C26_CacheFirst ==
    /\ \A i \in Lookups : history[i].cached => ~history[i].contacted
    /\ \A i \in Lookups :
          (~history[i].cached /\ history[i].answer # NoAsteroid)
             => /\ \E a \in db.asteroids : a.nasa_id = history[i].nasa_id
                /\ \A j \in Lookups :
                      (j > i /\ history[j].nasa_id = history[i].nasa_id)
                         => /\ history[j].cached
                            /\ ~history[j].contacted
                            /\ history[j].answer = history[i].answer
    /\ \A a, b \in db.asteroids : a.nasa_id = b.nasa_id => a = b

\* C27 (a request's session stays open): under any interleaving, a request
\* inside its own `async with nasa_neo_service` block issues its HTTP calls
\* on an open session; no request's exit closes the session another request
\* is still using.
C27_SessionOpenInside ==
    /\ \A r \in Requests : ~calls[r].on_closed
    /\ (\E r \in Requests : calls[r].pc \in {"inside", "awaiting"})
          => nasa.sessions[nasa.session] = "open"

\* C28 (no session leaked): once every `async with nasa_neo_service` block
\* has exited, every ClientSession that __aenter__ created is closed.
C28_SessionsClosed ==
    (\A r \in Requests : calls[r].pc = "exited")
        => \A i \in 1..Len(nasa.sessions) : nasa.sessions[i] = "closed"

\* The pages of the source that are empty or whose request fails.
BadPages ==
    {p \in 0..PageLimit :
        \/ GetNeoBrowse(nasa, p).status # "ok"
        \/ GetNeoBrowse(nasa, p).near_earth_objects = <<>>}

\* What holds of search_asteroids at every moment: at most filters.limit
\* items, each one matching the filter, at most PageLimit + 1 browse requests
\* and none beyond the first empty or failed page.
SearchBounded ==
    /\ Len(locals.all_asteroids) <= locals.filters.limit
    /\ locals.collected = Len(locals.all_asteroids)
    /\ \A i \in 1..Len(locals.all_asteroids) :
          MatchesFilter(locals.all_asteroids[i], locals.filters)
    /\ locals.requests <= PageLimit + 1
    /\ \A p \in BadPages : locals.requests <= p + 1

\* C29 (the search terminates): search_asteroids always returns; it returns
\* at most filters.limit items, every one satisfying _matches_filter, after
\* at most 51 browse requests (pages 0 through 50), and it stops at the
\* first empty or failed page with what was collected so far.
C29_SearchTerminates ==
    /\ [](pc # "idle" => SearchBounded)
    /\ [][(pc = "search" /\ locals.collected < locals.filters.limit
              /\ locals.page \in BadPages)
            => /\ pc' = "searched"
               /\ locals'.all_asteroids = locals.all_asteroids]_vars
    /\ (pc = "search") ~> (pc = "searched")

\* No record of the sixty pages is hazardous: the search gives up after the
\* request for page 50.
C29_Witness ==
    /\ pc = "searched"
    /\ locals.filters.potentially_hazardous = Bool(TRUE)
    /\ nasa.pages > PageLimit
    /\ locals.requests = PageLimit + 1
    /\ locals.page = PageLimit + 1
    /\ locals.all_asteroids = <<>>

\* The store before and after a handled update request: what the request
\* allows to differ.
UpdateFrame(before, after, put) ==
    LET oid == ObjectId(put.simulation_id)
        stored == {i \in 1..Len(before.simulations) :
                      before.simulations[i]._id = oid}
    IN /\ after.asteroids = before.asteroids
       /\ Len(after.simulations) = Len(before.simulations)
       /\ \A i \in 1..Len(before.simulations) :
             IF ObjectIdIsValid(put.simulation_id) /\ i \in stored
             THEN /\ DOMAIN after.simulations[i] = DOMAIN before.simulations[i]
                  /\ after.simulations[i].updated_at = put.now
                  /\ \A f \in MetadataFields :
                        after.simulations[i][f] =
                           IF IsNone(put.update_request[f])
                           THEN before.simulations[i][f]
                           ELSE put.update_request[f].v
                  /\ \A f \in DOMAIN before.simulations[i]
                                \ (MetadataFields \cup {"updated_at"}) :
                        after.simulations[i][f] = before.simulations[i][f]
             ELSE after.simulations[i] = before.simulations[i]

\* C30: update_simulation changes only metadata: for a stored simulation it
\* sets updated_at and exactly those of name, description, tags and is_public
\* that are not null in the request, and leaves parameters, results,
\* asteroid_data and every other simulation as they were; for an invalid id
\* the answer is 400 and for an id of no simulation 404, the store unchanged.
C30_UpdateOnlyMetadata ==
    [][/\ UpdateFrame(db, db', request')
       /\ ~ObjectIdIsValid(request'.simulation_id)
             => response'.status_code = 400 /\ db' = db
       /\ (/\ ObjectIdIsValid(request'.simulation_id)
           /\ FindSimulation(db, ObjectId(request'.simulation_id)) = NoDocument)
             => response'.status_code = 404 /\ db' = db
       /\ response'.status_code \in {400, 404} => db' = db]_vars

\* A stored simulation was renamed, its tags emptied and is_public cleared,
\* by a request that left the description null.
C30_Witness ==
    /\ pc = "update"
    /\ request # NoRequest
    /\ request.simulation_id = Hex24("a")
    /\ IsNone(request.update_request.description)
    /\ db.simulations[1].name = "Renamed"
    /\ db.simulations[1].tags = {}
    /\ db.simulations[1].is_public = FALSE
    /\ db.simulations[1].description = ""
    /\ db.simulations[1].updated_at = request.now
    /\ db.simulations[1].results = StoredResults
    /\ db.simulations[2] = SimulationStore.simulations[2]

====
